---------------------------- MODULE Spec2Model ----------------------------
(***************************************************************************)
(* Verification model of the Reddit pet-adoption engagement pipeline       *)
(* (siruwuu/5400_final_project).  Each component of the repository is a    *)
(* group of variables with its own initial condition, actions and          *)
(* specification; a component that is not part of a specification is       *)
(* pinned to its idle value.                                               *)
(***************************************************************************)
EXTENDS Integers, Sequences, FiniteSets, TLC

VARIABLES
    \* combine_post.py: combine_csv_files
    first_file, main_file, output_file, merge_stats, merge_pc,
    \* filter_comment.py: filter_and_transform_comments
    comment_file, cat_post_ids, dog_post_ids, cat_comments_file, dog_comments_file,
    cat_output_file, dog_output_file, filter_stats, filter_pc,
    \* new_engagement_classifier.py: label_high_engagement
    posts_df, labelled_df, label_pc,
    \* predictor.py: full_predict / load_model
    predict_text, model_dir, loaded_path, predict_result, predict_pc,
    \* new_engagement_classifier.py / new_engagement_regression.py: contains_money
    money_text, money_result, money_pc,
    \* preprocessing.py: clean_text
    clean_input, clean_outputs,
    \* suggestion.py: generate_gpt_suggestions
    gpt_args, gpt_prompt, gpt_return, gpt_pc,
    \* streamlit_app.py: the button callback
    app_text, app_model_dir, app_pc, app_calls, app_prediction, app_suggest_args, app_ui,
    \* bin/main.py: main
    cli_argv, cli_task, cli_pc, cli_running, cli_log, cli_events,
    \* new_engagement_regression.py / new_engagement_classifier.py: the two pipelines
    train_save_model, train_cwd, train_data_dir, train_writes, train_reg_pc, train_reg_done, train_cls_pc, train_cls_done,
    \* cat_or_dog.py: process_csv
    post_first, cat_posts_first, dog_posts_first, pet_stats, pet_pc,
    \* data_v2.py: the main sweep and collect_pet_posts
    sweep_lists, sweep_new, sweep_sub, sweep_pc, sweep_next_id, sweep_accepted, sweep_emergency, sweep_final,
    \* data_v1.py / data_v2.py: comment collection of an accepted post
    cap_comments, cap_stored, cap_pc,
    \* data_collection.py: the unified comment collector
    uc_sub, uc_idx, uc_all_comments, uc_events, uc_all_file, uc_adoption_file, uc_pc,
    \* cat_vs_dog.py: load_and_prepare_data
    style_cat_csv, style_dog_csv, style_df, prepare_pc,
    \* cat_vs_dog.py: run_style_model
    style_features, IMG_DIR, style_call, style_files, style_csv, style_pc,
    \* preprocessing.py: preprocess_comments
    feature_body, feature_row, feature_pc,
    \* data_v2.py: post_pet_type of a post met by collect_pet_posts
    assign_sub, assign_pet_type, assign_phase, assign_phrase, assign_text, assign_post_pet_type, assign_pc,
    \* data_v2.py: targets, incremental saves and post ids of a run
    saved_files, cat_posts, dog_posts, cat_posts_count, dog_posts_count, next_cat_save, next_dog_save, new_cat_posts, new_dog_posts, collected_post_ids, collector_sub, collector_pc, collector_phrase, collector_sort, guard_breaks, temp_files, final_files,
    \* bin/main.py and streamlit_app.py: the log files
    main_log, streamlit_app_log, log_written, log_runs, log_pc,
    \* src/main.py: the preprocessing driver
    raw_dir, processed_dir, processed_at_start, driver_importable, driver_pc, driver_file, driver_counts,
    \* src/data-collection/data_v1.py: the targeted dual-type collector
    v1_posts, v1_posts_count, v1_temp_files, v1_all_posts, v1_phase, v1_sub, v1_sort, v1_pc

mergeVars == <<first_file, main_file, output_file, merge_stats, merge_pc>>
filterVars == <<comment_file, cat_post_ids, dog_post_ids, cat_comments_file,
                dog_comments_file, cat_output_file, dog_output_file,
                filter_stats, filter_pc>>
labelVars == <<posts_df, labelled_df, label_pc>>
predictVars == <<predict_text, model_dir, loaded_path, predict_result, predict_pc>>
moneyVars == <<money_text, money_result, money_pc>>
cleanVars == <<clean_input, clean_outputs>>
gptVars == <<gpt_args, gpt_prompt, gpt_return, gpt_pc>>
appVars == <<app_text, app_model_dir, app_pc, app_calls, app_prediction,
             app_suggest_args, app_ui>>
cliVars == <<cli_argv, cli_task, cli_pc, cli_running, cli_log, cli_events>>
trainVars == <<train_save_model, train_cwd, train_data_dir, train_writes, train_reg_pc, train_reg_done, train_cls_pc, train_cls_done>>
petVars == <<post_first, cat_posts_first, dog_posts_first, pet_stats, pet_pc>>
sweepVars == <<sweep_lists, sweep_new, sweep_sub, sweep_pc, sweep_next_id, sweep_accepted, sweep_emergency, sweep_final>>
capVars == <<cap_comments, cap_stored, cap_pc>>
unifiedVars == <<uc_sub, uc_idx, uc_all_comments, uc_events, uc_all_file, uc_adoption_file, uc_pc>>
prepareVars == <<style_cat_csv, style_dog_csv, style_df, prepare_pc>>
styleVars == <<style_features, IMG_DIR, style_call, style_files, style_csv, style_pc>>
featuresVars == <<feature_body, feature_row, feature_pc>>
assignVars == <<assign_sub, assign_pet_type, assign_phase, assign_phrase, assign_text, assign_post_pet_type, assign_pc>>
collectorVars == <<saved_files, cat_posts, dog_posts, cat_posts_count, dog_posts_count, next_cat_save, next_dog_save, new_cat_posts, new_dog_posts, collected_post_ids, collector_sub, collector_pc, collector_phrase, collector_sort, guard_breaks, temp_files, final_files>>
logsVars == <<main_log, streamlit_app_log, log_written, log_runs, log_pc>>
driverVars == <<raw_dir, processed_dir, processed_at_start, driver_importable, driver_pc, driver_file, driver_counts>>
targetedVars == <<v1_posts, v1_posts_count, v1_temp_files, v1_all_posts, v1_phase, v1_sub, v1_sort, v1_pc>>

vars == <<mergeVars, filterVars, labelVars, predictVars, moneyVars, cleanVars,
          gptVars, appVars, cliVars, trainVars, petVars, sweepVars, capVars, unifiedVars, prepareVars, styleVars, featuresVars, assignVars, collectorVars, logsVars, driverVars, targetedVars>>

(***************************************************************************)
(* Generic helpers on sequences (pandas frames are sequences of rows).     *)
(***************************************************************************)
SeqsUpTo(S, n) == UNION {[1..k -> S] : k \in 0..n}

(***************************************************************************)
(* Text: a Python str is a sequence of one-character strings.              *)
(***************************************************************************)
UpperLetters == <<"A", "B", "C", "D", "E", "F", "G", "H", "I", "J", "K", "L", "M",
                  "N", "O", "P", "Q", "R", "S", "T", "U", "V", "W", "X", "Y", "Z">>
LowerLetters == <<"a", "b", "c", "d", "e", "f", "g", "h", "i", "j", "k", "l", "m",
                  "n", "o", "p", "q", "r", "s", "t", "u", "v", "w", "x", "y", "z">>
Digits == {"0", "1", "2", "3", "4", "5", "6", "7", "8", "9"}
Whitespace == {" ", "\n", "\t"}

LowerChar(c) ==
    IF \E i \in DOMAIN UpperLetters : UpperLetters[i] = c
    THEN LowerLetters[CHOOSE i \in DOMAIN UpperLetters : UpperLetters[i] = c]
    ELSE c

\* the upper-case form of a lower-case letter (any other character is itself)
UpperOfLower(c) ==
    IF \E i \in DOMAIN LowerLetters : LowerLetters[i] = c
    THEN UpperLetters[CHOOSE i \in DOMAIN LowerLetters : LowerLetters[i] = c]
    ELSE c

\* str.lower()
Lower(text) == [i \in DOMAIN text |-> LowerChar(text[i])]

\* text[i:].startswith(kw), i from 1
StartsWithAt(text, i, kw) ==
    /\ i + Len(kw) - 1 <= Len(text)
    /\ \A k \in 1..Len(kw) : text[i + k - 1] = kw[k]

\* kw in text
Contains(text, kw) == \E i \in 1..(Len(text) + 1) : StartsWithAt(text, i, kw)

\* an optional value: None is the empty sequence, a value v is <<v>>
None == <<>>
Some(v) == <<v>>

\* the concatenation of a sequence of text fragments
RECURSIVE Flatten(_)
Flatten(fs) == IF fs = <<>> THEN <<>> ELSE Head(fs) \o Flatten(Tail(fs))

TextsOf(fragments, n) == {Flatten(fs) : fs \in SeqsUpTo(fragments, n)}

(***************************************************************************)
(* Post-set merger: src/utils/data-collection/combine_post.py              *)
(***************************************************************************)
NumPostIds == 3
MaxPostRows == 2

PostIds == 1..NumPostIds
\* the remaining fields of a post row, abstracted to one value
PostFields == {"u", "v"}
PostRows == [post_id : PostIds, fields : PostFields]

\* set(df["post_id"])
PostIdSet(df) == {df[i].post_id : i \in DOMAIN df}

\* a variant that keeps the colliding first-pass rows (no duplicate removal)
CombineKeepAll(df_first, df_main) ==
    LET df_combined == df_main \o df_first
    IN  [output |-> df_combined,
         stats  |-> [initial_count_first |-> Len(df_first),
                     initial_count_main  |-> Len(df_main),
                     duplicates_removed  |-> 0,
                     final_count         |-> Len(df_combined)]]

\* combine_csv_files(first_file, main_file, output_file)
CombineCsv(df_first, df_main) ==
    LET duplicate_ids == PostIdSet(df_first) \cap PostIdSet(df_main)
        num_duplicates == Cardinality(duplicate_ids)
        kept == IF num_duplicates > 0
                THEN SelectSeq(df_first, LAMBDA r : r.post_id \notin duplicate_ids)
                ELSE df_first
        df_combined == df_main \o kept
    IN  [output |-> df_combined,
         stats  |-> [initial_count_first |-> Len(df_first),
                     initial_count_main  |-> Len(df_main),
                     duplicates_removed  |-> num_duplicates,
                     final_count         |-> Len(df_combined)]]

NoStats == [initial_count_first |-> 0, initial_count_main |-> 0,
            duplicates_removed |-> 0, final_count |-> 0]

InitMerge ==
    /\ first_file \in SeqsUpTo(PostRows, MaxPostRows)
    /\ main_file \in SeqsUpTo(PostRows, MaxPostRows)
    /\ output_file = <<>>
    /\ merge_stats = NoStats
    /\ merge_pc = "start"

IdleMerge ==
    /\ first_file = <<>>
    /\ main_file = <<>>
    /\ output_file = <<>>
    /\ merge_stats = NoStats
    /\ merge_pc = "idle"

OtherThanMerge == <<filterVars, labelVars, predictVars, moneyVars, cleanVars, gptVars, appVars, cliVars, trainVars, petVars, sweepVars, capVars, unifiedVars, prepareVars, styleVars, featuresVars, assignVars, collectorVars, logsVars, driverVars, targetedVars>>

combine_csv_files ==
    /\ merge_pc = "start"
    /\ LET r == CombineCsv(first_file, main_file)
       IN  /\ output_file' = r.output
           /\ merge_stats' = r.stats
    /\ merge_pc' = "done"
    /\ UNCHANGED <<first_file, main_file, OtherThanMerge>>

NextMerge == combine_csv_files

\* C1: after the merge, the post IDs of the output are the union of the two
\* files' IDs, every main row is present unchanged, and for an ID present in
\* both files the output rows with that ID are exactly the main file's rows
\* (main values win, no first-pass row with that ID survives).
RowCount(df, row) == Cardinality({i \in DOMAIN df : df[i] = row})
CollidingIds == PostIdSet(first_file) \cap PostIdSet(main_file)

PostIdCount(df, id) == Cardinality({i \in DOMAIN df : df[i].post_id = id})

MaxCommentRows == 2

CommentIds == {"c1", "c2"}
CommentPostIds == {"p1", "p2"}
\* a row of comment_first.csv (the columns the function reads)
SourceComments == [comment_id : CommentIds, post_id : CommentPostIds]
\* a row of the canonical comment schema
SpeciesComments(pet) == [comment_id : CommentIds, post_id : {"p1"}, pet_type : {pet}]

\* set(df["comment_id"])
CommentIdSet(df) == {df[i].comment_id : i \in DOMAIN df}

\* the number of rows of df with comment_id c
CommentCount(df, c) == Cardinality({i \in DOMAIN df : df[i].comment_id = c})

\* comments_df[comments_df["post_id"].isin(post_ids)] reshaped, with pet_type added
TransformComments(comments_df, post_ids, pet) ==
    LET filtered == SelectSeq(comments_df, LAMBDA r : r.post_id \in post_ids)
    IN  [i \in DOMAIN filtered |->
            [comment_id |-> filtered[i].comment_id,
             post_id    |-> filtered[i].post_id,
             pet_type   |-> pet]]

\* a variant that appends every filtered comment (no duplicate check)
MergeSpeciesNoCheck(comments_df, post_ids, existing_df, pet) ==
    LET transformed == TransformComments(comments_df, post_ids, pet)
    IN  [filtered   |-> Len(transformed),
         duplicates |-> 0,
         added      |-> transformed,
         combined   |-> existing_df \o transformed]

\* one species' half of filter_and_transform_comments
MergeSpecies(comments_df, post_ids, existing_df, pet) ==
    LET transformed == TransformComments(comments_df, post_ids, pet)
        comment_ids == CommentIdSet(transformed)
        existing_comment_ids == CommentIdSet(existing_df)
        duplicates == comment_ids \cap existing_comment_ids
        kept == SelectSeq(transformed, LAMBDA r : r.comment_id \notin duplicates)
    IN  [filtered   |-> Len(transformed),
         duplicates |-> Cardinality(duplicates),
         added      |-> kept,
         combined   |-> existing_df \o kept]

NoFilterStats == [cat_comments_filtered |-> 0, dog_comments_filtered |-> 0,
                  cat_duplicates_removed |-> 0, dog_duplicates_removed |-> 0,
                  cat_comments_added |-> 0, dog_comments_added |-> 0,
                  cat_comments_total |-> 0, dog_comments_total |-> 0]

InitFilter ==
    /\ comment_file \in SeqsUpTo(SourceComments, MaxCommentRows)
    /\ cat_post_ids \in SUBSET CommentPostIds
    /\ dog_post_ids \in SUBSET CommentPostIds
    /\ cat_comments_file \in SeqsUpTo(SpeciesComments("cat"), MaxCommentRows)
    /\ dog_comments_file \in SeqsUpTo(SpeciesComments("dog"), MaxCommentRows)
    /\ cat_output_file = <<>>
    /\ dog_output_file = <<>>
    /\ filter_stats = NoFilterStats
    /\ filter_pc = "start"

IdleFilter ==
    /\ comment_file = <<>>
    /\ cat_post_ids = {}
    /\ dog_post_ids = {}
    /\ cat_comments_file = <<>>
    /\ dog_comments_file = <<>>
    /\ cat_output_file = <<>>
    /\ dog_output_file = <<>>
    /\ filter_stats = NoFilterStats
    /\ filter_pc = "idle"

OtherThanFilter == <<mergeVars, labelVars, predictVars, moneyVars, cleanVars, gptVars, appVars, cliVars, trainVars, petVars, sweepVars, capVars, unifiedVars, prepareVars, styleVars, featuresVars, assignVars, collectorVars, logsVars, driverVars, targetedVars>>

filter_and_transform_comments ==
    /\ filter_pc = "start"
    /\ LET cat == MergeSpecies(comment_file, cat_post_ids, cat_comments_file, "cat")
           dog == MergeSpecies(comment_file, dog_post_ids, dog_comments_file, "dog")
       IN  /\ cat_output_file' = cat.combined
           /\ dog_output_file' = dog.combined
           /\ filter_stats' =
                [cat_comments_filtered  |-> cat.filtered,
                 dog_comments_filtered  |-> dog.filtered,
                 cat_duplicates_removed |-> cat.duplicates,
                 dog_duplicates_removed |-> dog.duplicates,
                 cat_comments_added     |-> Len(cat.added),
                 dog_comments_added     |-> Len(dog.added),
                 cat_comments_total     |-> Len(cat.combined),
                 dog_comments_total     |-> Len(dog.combined)]
    /\ filter_pc' = "done"
    /\ UNCHANGED <<comment_file, cat_post_ids, dog_post_ids, cat_comments_file,
                   dog_comments_file, OtherThanFilter>>

NextFilter == filter_and_transform_comments

\* the rows the merge appended to the existing file
AddedRows(existing_df, combined) == SubSeq(combined, Len(existing_df) + 1, Len(combined))

NoRepeatedId(df) == \A i, j \in DOMAIN df : df[i].comment_id = df[j].comment_id => i = j

NothingReintroduced(existing_df, combined) ==
    /\ Len(combined) >= Len(existing_df)
    /\ SubSeq(combined, 1, Len(existing_df)) = existing_df
    /\ CommentIdSet(AddedRows(existing_df, combined))
         \cap CommentIdSet(existing_df) = {}

SpeciesMergeExact(existing_df, post_ids, combined) ==
    LET source == SelectSeq(comment_file, LAMBDA r : r.post_id \in post_ids)
    IN  /\ NothingReintroduced(existing_df, combined)
        /\ \A c \in CommentIds :
              CommentCount(combined, c)
                = IF c \in CommentIdSet(existing_df)
                  THEN CommentCount(existing_df, c)
                  ELSE CommentCount(source, c)
        /\ (NoRepeatedId(existing_df) /\ NoRepeatedId(source)) => NoRepeatedId(combined)

MaxPosts == 4

Scores == {0, 1}
NumComments == {0, 1}
PostsWithScore == [score : Scores, num_comments : NumComments,
                   cleaned_text : {"text", "NaN"}]

\* preprocess_posts: df["engagement_score"] = df["score"] + 0.5 * df["num_comments"]
\* (twice the score)
Engagement2(row) == 2 * row.score + row.num_comments

\* the k-th smallest (k from 0) of the values xs[1..n]
KthSmallest(xs, k) ==
    CHOOSE v \in {xs[i] : i \in DOMAIN xs} :
        /\ Cardinality({i \in DOMAIN xs : xs[i] < v}) <= k
        /\ k < Cardinality({i \in DOMAIN xs : xs[i] <= v})

\* four times Series.quantile(num / 4) with linear interpolation:
\* position (n - 1) * num / 4 between the two neighbouring order statistics
Quantile4(xs, num) ==
    LET n == Len(xs)
        pos == (n - 1) * num
        lo == pos \div 4
        frac == pos % 4
    IN  IF n = 0 THEN 0
        ELSE IF frac = 0 THEN 4 * KthSmallest(xs, lo)
        ELSE 4 * KthSmallest(xs, lo)
               + frac * (KthSmallest(xs, lo + 1) - KthSmallest(xs, lo))

EngagementColumn(df) == [i \in DOMAIN df |-> Engagement2(df[i])]
Q75x4(df) == Quantile4(EngagementColumn(df), 3)
Q50x4(df) == Quantile4(EngagementColumn(df), 2)

\* a variant whose high label starts at the median
LabelFromMedian(x, q75, q50) == IF 4 * x >= q50 THEN Some(1) ELSE Some(0)

\* a variant that labels every row below the upper threshold 0
LabelAllBelow(x, q75, q50) == IF 4 * x >= q75 THEN Some(1) ELSE Some(0)

\* lambda x: 1 if x >= q75 else (0 if x <= q50 else None)
LabelOf(x, q75, q50) ==
    IF 4 * x >= q75 THEN Some(1) ELSE IF 4 * x <= q50 THEN Some(0) ELSE None

\* label_high_engagement(df): the labelled rows that survive
\* dropna(subset=["high_engagement", "cleaned_text"]), with their index
LabelHighEngagement(df) ==
    LET q75 == Q75x4(df)
        q50 == Q50x4(df)
        labelled == [i \in DOMAIN df |->
                        [index |-> i,
                         engagement2 |-> Engagement2(df[i]),
                         cleaned_text |-> df[i].cleaned_text,
                         high_engagement |-> LabelOf(Engagement2(df[i]), q75, q50)]]
    IN  SelectSeq(labelled,
                   LAMBDA r : r.high_engagement # None /\ r.cleaned_text # "NaN")

InitLabel ==
    /\ posts_df \in SeqsUpTo(PostsWithScore, MaxPosts)
    /\ labelled_df = <<>>
    /\ label_pc = "start"

IdleLabel ==
    /\ posts_df = <<>>
    /\ labelled_df = <<>>
    /\ label_pc = "idle"

OtherThanLabel == <<mergeVars, filterVars, predictVars, moneyVars, cleanVars, gptVars, appVars, cliVars, trainVars, petVars, sweepVars, capVars, unifiedVars, prepareVars, styleVars, featuresVars, assignVars, collectorVars, logsVars, driverVars, targetedVars>>

label_high_engagement ==
    /\ label_pc = "start"
    /\ labelled_df' = LabelHighEngagement(posts_df)
    /\ label_pc' = "done"
    /\ UNCHANGED <<posts_df, OtherThanLabel>>

NextLabel == label_high_engagement

LabelledIndexes == {labelled_df[k].index : k \in DOMAIN labelled_df}

\* C3: a row is labelled 1 only if its score is at least the dataset's 75th
\* percentile, and every row strictly between the 50th and the 75th
\* percentile is absent from the labelled output.
C3_HighLabelAndGap ==
    label_pc = "done" =>
        /\ \A k \in DOMAIN labelled_df :
              /\ labelled_df[k].engagement2 = Engagement2(posts_df[labelled_df[k].index])
              /\ labelled_df[k].high_engagement = Some(1)
                    => 4 * labelled_df[k].engagement2 >= Q75x4(posts_df)
        /\ \A i \in DOMAIN posts_df :
              (/\ 4 * Engagement2(posts_df[i]) > Q50x4(posts_df)
               /\ 4 * Engagement2(posts_df[i]) < Q75x4(posts_df))
                 => i \notin LabelledIndexes

\* a labelled dataset with a high row, a low row and a dropped row in the gap
C3_Witness ==
    /\ label_pc = "done"
    /\ \E k \in DOMAIN labelled_df : labelled_df[k].high_engagement = Some(1)
    /\ \E k \in DOMAIN labelled_df : labelled_df[k].high_engagement = Some(0)
    /\ \E i \in DOMAIN posts_df :
          /\ 4 * Engagement2(posts_df[i]) > Q50x4(posts_df)
          /\ 4 * Engagement2(posts_df[i]) < Q75x4(posts_df)
          /\ posts_df[i].cleaned_text = "text"

\* C4 as stated: label 0 is never given to a row whose score is at or above
\* the 50th percentile and below the 75th.
C4_AsStated ==
    label_pc = "done" =>
        \A k \in DOMAIN labelled_df :
            labelled_df[k].high_engagement = Some(0)
               => ~ (/\ 4 * labelled_df[k].engagement2 >= Q50x4(posts_df)
                     /\ 4 * labelled_df[k].engagement2 < Q75x4(posts_df))

\* C4 amended: label 0 is never given to a row whose score is strictly above
\* the 50th percentile; a row exactly at the 50th percentile and below the
\* 75th (with cleaned text) is labelled 0.
C4_LowLabel ==
    label_pc = "done" =>
        /\ \A k \in DOMAIN labelled_df :
              labelled_df[k].high_engagement = Some(0)
                 => 4 * labelled_df[k].engagement2 <= Q50x4(posts_df)
        /\ \A i \in DOMAIN posts_df :
              (/\ 4 * Engagement2(posts_df[i]) = Q50x4(posts_df)
               /\ 4 * Engagement2(posts_df[i]) < Q75x4(posts_df)
               /\ posts_df[i].cleaned_text = "text")
                 => \E k \in DOMAIN labelled_df :
                       /\ labelled_df[k].index = i
                       /\ labelled_df[k].high_engagement = Some(0)

\* a row exactly at the 50th percentile and below the 75th, labelled 0, in
\* a dataset that also has a row labelled 1
C4_Witness ==
    /\ label_pc = "done"
    /\ \E k \in DOMAIN labelled_df :
          /\ labelled_df[k].high_engagement = Some(0)
          /\ 4 * labelled_df[k].engagement2 = Q50x4(posts_df)
          /\ 4 * labelled_df[k].engagement2 < Q75x4(posts_df)
    /\ \E k \in DOMAIN labelled_df : labelled_df[k].high_engagement = Some(1)

(***************************************************************************)
(* Prediction service: src/gpt_classifier_suggester/prediction/predictor.py *)
(***************************************************************************)
MaxPredictFragments == 3

PredictFragments ==
    {<<"c">>, <<"a", "t">>, <<"C", "A", "T">>, <<"k", "i", "t">>, <<"t", "e", "n">>,
     <<"K", "i", "t", "T", "e", "n">>, <<"d", "o", "g">>, <<" ">>}

KwCat == <<"c", "a", "t">>
KwKitten == <<"k", "i", "t", "t", "e", "n">>

CatsArtifact == "cats_rf_pipeline.pkl"
DogsArtifact == "dogs_rf_pipeline.pkl"

\* predict_proba(df)[0][1], in hundredths
Probabilities == {0, 49, 50, 100}

\* a variant that does not look for "kitten"
PetTypeCatOnly(text) == IF Contains(Lower(text), KwCat) THEN "cat" ELSE "dog"

\* "cat" if "cat" in text.lower() or "kitten" in text.lower() else "dog"
PetTypeOf(text) ==
    IF Contains(Lower(text), KwCat) \/ Contains(Lower(text), KwKitten)
    THEN "cat" ELSE "dog"

\* load_model: the artifact path chosen for a species
ModelPath(pet_type) == IF pet_type = "cat" THEN CatsArtifact ELSE DogsArtifact

NoResult == [pet_type |-> "", prob |-> 0]

InitPredict ==
    /\ predict_text \in TextsOf(PredictFragments, MaxPredictFragments)
    /\ model_dir \in SUBSET {CatsArtifact, DogsArtifact}
    /\ loaded_path = ""
    /\ predict_result = NoResult
    /\ predict_pc = "start"

IdlePredict ==
    /\ predict_text = <<>>
    /\ model_dir = {}
    /\ loaded_path = ""
    /\ predict_result = NoResult
    /\ predict_pc = "idle"

OtherThanPredict == <<mergeVars, filterVars, labelVars, moneyVars, cleanVars, gptVars, appVars, cliVars, trainVars, petVars, sweepVars, capVars, unifiedVars, prepareVars, styleVars, featuresVars, assignVars, collectorVars, logsVars, driverVars, targetedVars>>

\* full_predict(text): open() raises when the artifact is not in model_dir
full_predict ==
    /\ predict_pc = "start"
    /\ LET pet_type == PetTypeOf(predict_text)
           model_path == ModelPath(pet_type)
       IN  IF model_path \in model_dir
           THEN /\ loaded_path' = model_path
                /\ \E prob \in Probabilities :
                      predict_result' = [pet_type |-> pet_type, prob |-> prob]
                /\ predict_pc' = "returned"
           ELSE /\ predict_pc' = "raised"
                /\ UNCHANGED <<loaded_path, predict_result>>
    /\ UNCHANGED <<predict_text, model_dir, OtherThanPredict>>

NextPredict == full_predict

\* the lower-cased text has the letters of kw, in order, at some position
\* (on lower-cased letters, upper-casing is the inverse of lower-casing)
MentionsWord(text, kw) ==
    \E i \in 1..Len(text) :
        /\ i + Len(kw) - 1 <= Len(text)
        /\ \A k \in 1..Len(kw) : text[i + k - 1] \in {kw[k], UpperOfLower(kw[k])}

\* C5: full_predict returns "cat" exactly when the lower-cased text contains
\* "cat" or "kitten" and "dog" otherwise, and the artifact it loaded is the
\* one of the returned species.
C5_SpeciesAndArtifact ==
    predict_pc = "returned" =>
        /\ predict_result.pet_type \in {"cat", "dog"}
        /\ predict_result.pet_type = "cat"
              <=> (MentionsWord(predict_text, KwCat) \/ MentionsWord(predict_text, KwKitten))
        /\ predict_result.pet_type = "cat" => loaded_path = CatsArtifact
        /\ predict_result.pet_type = "dog" => loaded_path = DogsArtifact

\* a call that returned "cat" for a text with "kitten" in mixed case and no
\* "cat" in it
C5_Witness ==
    /\ predict_pc = "returned"
    /\ predict_result.pet_type = "cat"
    /\ loaded_path = CatsArtifact
    /\ ~ MentionsWord(predict_text, KwCat)
    /\ ~ Contains(predict_text, KwKitten)

(***************************************************************************)
(* contains_money: src/mod/new_engagement_classifier.py and                *)
(* src/mod/new_engagement_regression.py                                    *)
(***************************************************************************)
MaxMoneyFragments == 3

MoneyFragments ==
    {<<"$">>, <<"5">>, <<"d", "o", "n", "a", "t">>, <<"e">>, <<"i", "o", "n">>,
     <<"P", "l", "e", "d", "g", "e">>, <<"f", "u", "n">>, <<"d">>,
     <<"R", "A", "I", "S", "E">>, <<" ">>}

\* money_keywords
MoneyKeywords ==
    {<<"d", "o", "n", "a", "t", "i", "o", "n">>, <<"d", "o", "n", "a", "t", "e">>,
     <<"p", "l", "e", "d", "g", "e">>, <<"$">>, <<"f", "u", "n", "d">>,
     <<"r", "a", "i", "s", "e">>}

\* str(text) of a cell: a missing cleaned_text cell (None) reads "nan"
Str(cell) == IF cell = None THEN <<"n", "a", "n">> ELSE cell[1]

\* re.search(r"\$\d+", text)
SearchDollarAmount(text) ==
    \E i \in 1..(Len(text) - 1) : text[i] = "$" /\ text[i + 1] \in Digits

BoolToInt(b) == IF b THEN 1 ELSE 0

\* a variant that matches the keywords against the text as written
ContainsMoneyCaseSensitive(text) ==
    LET t == Str(text)
    IN  BoolToInt((\E kw \in MoneyKeywords : Contains(t, kw)) \/ SearchDollarAmount(t))

\* contains_money(text)
ContainsMoney(text) ==
    LET t == Lower(Str(text))
    IN  BoolToInt((\E kw \in MoneyKeywords : Contains(t, kw)) \/ SearchDollarAmount(t))

InitMoney ==
    /\ money_text \in {Some(t) : t \in TextsOf(MoneyFragments, MaxMoneyFragments)}
                        \cup {None}
    /\ money_result = None
    /\ money_pc = "start"

IdleMoney ==
    /\ money_text = None
    /\ money_result = None
    /\ money_pc = "idle"

OtherThanMoney == <<mergeVars, filterVars, labelVars, predictVars, cleanVars, gptVars, appVars, cliVars, trainVars, petVars, sweepVars, capVars, unifiedVars, prepareVars, styleVars, featuresVars, assignVars, collectorVars, logsVars, driverVars, targetedVars>>

contains_money ==
    /\ money_pc = "start"
    /\ money_result' = Some(ContainsMoney(money_text))
    /\ money_pc' = "done"
    /\ UNCHANGED <<money_text, OtherThanMoney>>

NextMoney == contains_money

\* the text as read, or no text for a missing cell
WrittenText == IF money_text = None THEN <<>> ELSE money_text[1]

\* C6: contains_money returns 1 when the lower-cased text contains a money
\* keyword or a dollar amount, and 0 when it contains neither.
C6_MoneyFlag ==
    money_pc = "done" =>
        LET hasKeyword == \E kw \in MoneyKeywords : MentionsWord(WrittenText, kw)
            hasAmount == \E i \in 1..(Len(WrittenText) - 1) :
                            WrittenText[i] = "$" /\ WrittenText[i + 1] \in Digits
        IN  /\ (hasKeyword \/ hasAmount) => money_result = Some(1)
            /\ ~ (hasKeyword \/ hasAmount) => money_result = Some(0)

\* a text flagged for a keyword written in upper case, without any "$"
C6_Witness ==
    /\ money_pc = "done"
    /\ money_result = Some(1)
    /\ money_text # None
    /\ ~ Contains(WrittenText, <<"$">>)
    /\ ~ (\E kw \in MoneyKeywords : Contains(WrittenText, kw))

(***************************************************************************)
(* Text cleaning: src/utils/data_preprocessing/preprocessing.py            *)
(***************************************************************************)
MaxCleanFragments == 4
MaxApplications == 2

CleanFragments ==
    {<<"h", "t">>, <<"t", "p">>, <<"H", "t", "t", "p">>, <<"w", "w", "w">>, <<"w">>,
     <<"x">>, <<" ">>, <<"\n">>, <<"[", "x", "]", "(", "y", ")">>, <<"[">>,
     <<"]", "(", "y", ")">>}

KwHttp == <<"h", "t", "t", "p">>
KwWww == <<"w", "w", "w">>

SetMin(S) == CHOOSE x \in S : \A y \in S : x <= y

\* the last index of the run of non-whitespace characters that starts at i
EndOfNonSpace(text, i) ==
    SetMin({j \in i..Len(text) : text[j] \in Whitespace} \cup {Len(text) + 1}) - 1

\* http\S+|www\S+ matches at i
UrlStartsAt(text, i) ==
    \/ /\ StartsWithAt(text, i, KwHttp)
       /\ i + 4 <= Len(text)
       /\ text[i + 4] \notin Whitespace
    \/ /\ StartsWithAt(text, i, KwWww)
       /\ i + 3 <= Len(text)
       /\ text[i + 3] \notin Whitespace

\* re.sub(r"http\S+|www\S+", "", text), scanning from index i
RECURSIVE RemoveUrlsFrom(_, _)
RemoveUrlsFrom(text, i) ==
    IF i > Len(text) THEN <<>>
    ELSE IF UrlStartsAt(text, i) THEN RemoveUrlsFrom(text, EndOfNonSpace(text, i) + 1)
    ELSE <<text[i]>> \o RemoveUrlsFrom(text, i + 1)

NoNewline(text, a, b) == \A m \in a..b : text[m] # "\n"

\* the end index of the match of \[.*?\]\(.*?\) at i, or 0 when it does not
\* match there ("." is any character but a newline, both stars are lazy)
MarkdownEndAt(text, i) ==
    LET J == {j \in (i + 1)..(Len(text) - 1) : text[j] = "]" /\ text[j + 1] = "("}
    IN  IF text[i] # "[" \/ J = {} THEN 0
        ELSE LET j == SetMin(J)
                 K == {k \in (j + 2)..Len(text) : text[k] = ")"}
             IN  IF K = {} \/ ~ NoNewline(text, i + 1, j - 1) THEN 0
                 ELSE IF NoNewline(text, j + 2, SetMin(K) - 1) THEN SetMin(K) ELSE 0

\* re.sub(r"\[.*?\]\(.*?\)", "", text), scanning from index i
RECURSIVE RemoveMarkdownFrom(_, _)
RemoveMarkdownFrom(text, i) ==
    IF i > Len(text) THEN <<>>
    ELSE IF MarkdownEndAt(text, i) > 0
         THEN RemoveMarkdownFrom(text, MarkdownEndAt(text, i) + 1)
    ELSE <<text[i]>> \o RemoveMarkdownFrom(text, i + 1)

\* re.sub(r"\s+", " ", text), scanning from index i
RECURSIVE CollapseSpaceFrom(_, _)
CollapseSpaceFrom(text, i) ==
    IF i > Len(text) THEN <<>>
    ELSE IF text[i] \in Whitespace
         THEN <<" ">> \o CollapseSpaceFrom(text,
                 SetMin({j \in i..Len(text) : text[j] \notin Whitespace}
                           \cup {Len(text) + 1}))
    ELSE <<text[i]>> \o CollapseSpaceFrom(text, i + 1)

\* str.strip()
Strip(text) ==
    LET inked == {i \in DOMAIN text : text[i] \notin Whitespace}
    IN  IF inked = {} THEN <<>>
        ELSE SubSeq(text, SetMin(inked), CHOOSE x \in inked : \A y \in inked : y <= x)

\* clean_text(text)
CleanText(text) ==
    LET lowered == Lower(text)
        noUrls == RemoveUrlsFrom(lowered, 1)
        noMarkdown == RemoveMarkdownFrom(noUrls, 1)
    IN  Strip(CollapseSpaceFrom(noMarkdown, 1))

InitClean ==
    /\ clean_input \in TextsOf(CleanFragments, MaxCleanFragments)
    /\ clean_outputs = <<>>

IdleClean ==
    /\ clean_input = <<>>
    /\ clean_outputs = <<"idle">>

OtherThanClean == <<mergeVars, filterVars, labelVars, predictVars, moneyVars, gptVars, appVars, cliVars, trainVars, petVars, sweepVars, capVars, unifiedVars, prepareVars, styleVars, featuresVars, assignVars, collectorVars, logsVars, driverVars, targetedVars>>

\* clean_text applied to the raw text, then to its own output
clean_text ==
    /\ clean_outputs # <<"idle">>
    /\ Len(clean_outputs) < MaxApplications
    /\ clean_outputs' = Append(clean_outputs,
                               CleanText(IF clean_outputs = <<>> THEN clean_input
                                         ELSE clean_outputs[Len(clean_outputs)]))
    /\ UNCHANGED <<clean_input, OtherThanClean>>

NextClean == clean_text

\* C7: clean_text is idempotent: cleaning a cleaned text changes nothing.
C7_Idempotent ==
    Len(clean_outputs) >= 2 => clean_outputs[2] = clean_outputs[1]

(***************************************************************************)
(* Suggestion generator: src/gpt_classifier_suggester/gpt/suggestion.py    *)
(***************************************************************************)
\* what client.chat.completions.create does: it answers with a content
\* string, raises, answers with an empty choices list, or answers with a
\* message whose content is None
CompletionOutcomes == {"content", "raises", "no_choices", "content_missing"}

GptTexts == {<<>>, <<"c", "a", "t">>, <<"d", "o", "g">>}

\* a prompt that calls a probability of exactly one half low
BuildPromptHalfIsLow(text, pet_type, prob) ==
    [pet_type |-> pet_type,
     engagement |-> IF prob <= 50 THEN "low" ELSE "high",
     prob |-> prob,
     text |-> text]

\* the prompt: {pet_type}, {'low' if prob < 0.5 else 'high'}, {prob:.2f}, {text}
BuildPrompt(text, pet_type, prob) ==
    [pet_type |-> pet_type,
     engagement |-> IF prob < 50 THEN "low" ELSE "high",
     prob |-> prob,
     text |-> text]

StrValue(v) == [type |-> "str", value |-> v]
NoneValue == [type |-> "NoneType", value |-> ""]

\* the try/except of generate_gpt_suggestions for one outcome of the call
SuggestionsFor(outcome) ==
    CASE outcome = "content" -> StrValue("1. suggestions")
      [] outcome = "raises" -> StrValue("GPT suggestion failed: connection error")
      [] outcome = "no_choices" -> StrValue("GPT suggestion failed: list index out of range")
      [] outcome = "content_missing" -> NoneValue

InitGpt ==
    /\ gpt_args \in [text : GptTexts, pet_type : {"cat", "dog"}, prob : Probabilities]
    /\ gpt_prompt = None
    /\ gpt_return = None
    /\ gpt_pc = "start"

IdleGpt ==
    /\ gpt_args = None
    /\ gpt_prompt = None
    /\ gpt_return = None
    /\ gpt_pc = "idle"

OtherThanGpt == <<mergeVars, filterVars, labelVars, predictVars, moneyVars, cleanVars,
                  appVars, cliVars, trainVars, petVars, sweepVars, capVars, unifiedVars, prepareVars, styleVars, featuresVars, assignVars, collectorVars, logsVars, driverVars, targetedVars>>

generate_gpt_suggestions ==
    /\ gpt_pc = "start"
    /\ gpt_prompt' = Some(BuildPrompt(gpt_args.text, gpt_args.pet_type, gpt_args.prob))
    /\ \E outcome \in CompletionOutcomes :
          gpt_return' = Some(SuggestionsFor(outcome))
    /\ gpt_pc' = "returned"
    /\ UNCHANGED <<gpt_args, OtherThanGpt>>

NextGpt == generate_gpt_suggestions

\* C9: generate_gpt_suggestions always returns a string, whatever the
\* completion call did (content, raised error, no choices, missing content).
C9_AlwaysString ==
    gpt_pc = "returned" => gpt_return[1].type = "str"

(***************************************************************************)
(* Web application: src/gpt_classifier_suggester/app/streamlit_app.py      *)
(***************************************************************************)
MaxAppFragments == 2

AppFragments == {<<" ">>, <<"\n">>, <<"c", "a", "t">>, <<"d", "o", "g">>,
                 <<"K", "i", "t", "t", "e", "n">>}
AppTexts == TextsOf(AppFragments, MaxAppFragments)

\* a variant that tests the text without stripping it
IsBlankUnstripped(text) == text = <<>>

\* not text.strip()
IsBlank(text) == Strip(text) = <<>>

\* generate_gpt_suggestions(text, pet_type, prob)
SuggestionCall(text, pet_type, prob) == [text |-> text, pet_type |-> pet_type, prob |-> prob]

NoCalls == [full_predict |-> 0, generate_gpt_suggestions |-> 0]

InitApp ==
    /\ app_text \in AppTexts
    /\ app_model_dir \in SUBSET {CatsArtifact, DogsArtifact}
    /\ app_pc = "idle"
    /\ app_calls = NoCalls
    /\ app_prediction = None
    /\ app_suggest_args = None
    /\ app_ui = <<>>

IdleApp ==
    /\ app_text = <<>>
    /\ app_model_dir = {}
    /\ app_pc = "off"
    /\ app_calls = NoCalls
    /\ app_prediction = None
    /\ app_suggest_args = None
    /\ app_ui = <<>>

OtherThanApp == <<mergeVars, filterVars, labelVars, predictVars, moneyVars, cleanVars,
                  gptVars, cliVars, trainVars, petVars, sweepVars, capVars, unifiedVars, prepareVars, styleVars, featuresVars, assignVars, collectorVars, logsVars, driverVars, targetedVars>>

\* the button is activated: the warning branch, or full_predict is entered
button_activated ==
    /\ app_pc = "idle"
    /\ IF IsBlank(app_text)
       THEN /\ app_ui' = <<"warning: Please enter some text.">>
            /\ app_pc' = "warned"
            /\ UNCHANGED app_calls
       ELSE /\ app_calls' = [app_calls EXCEPT !.full_predict = @ + 1]
            /\ app_pc' = "in_full_predict"
            /\ UNCHANGED app_ui
    /\ UNCHANGED <<app_text, app_model_dir, app_prediction, app_suggest_args, OtherThanApp>>

\* full_predict returns (pet_type, prob); species and badge are rendered
full_predict_returns ==
    /\ app_pc = "in_full_predict"
    /\ ModelPath(PetTypeOf(app_text)) \in app_model_dir
    /\ \E prob \in Probabilities :
          /\ app_prediction' = Some([pet_type |-> PetTypeOf(app_text), prob |-> prob])
          /\ app_ui' = <<"species: " \o PetTypeOf(app_text),
                         IF prob >= 50 THEN "badge: High" ELSE "badge: Low">>
    /\ app_pc' = "predicted"
    /\ UNCHANGED <<app_text, app_model_dir, app_calls, app_suggest_args, OtherThanApp>>

\* full_predict raises (the artifact is missing): the callback ends there
full_predict_raises ==
    /\ app_pc = "in_full_predict"
    /\ ModelPath(PetTypeOf(app_text)) \notin app_model_dir
    /\ app_pc' = "crashed"
    /\ UNCHANGED <<app_text, app_model_dir, app_calls, app_prediction, app_suggest_args,
                   app_ui, OtherThanApp>>

\* suggestions = generate_gpt_suggestions(text, pet_type, prob) is entered
call_generate_gpt_suggestions ==
    /\ app_pc = "predicted"
    /\ app_calls' = [app_calls EXCEPT !.generate_gpt_suggestions = @ + 1]
    /\ app_suggest_args' =
          Some(SuggestionCall(app_text, app_prediction[1].pet_type, app_prediction[1].prob))
    /\ app_pc' = "in_generate_gpt_suggestions"
    /\ UNCHANGED <<app_text, app_model_dir, app_prediction, app_ui, OtherThanApp>>

\* generate_gpt_suggestions returns and st.markdown renders what it returned
generate_gpt_suggestions_returns ==
    /\ app_pc = "in_generate_gpt_suggestions"
    /\ \E outcome \in CompletionOutcomes :
          app_ui' = Append(app_ui, "suggestions: " \o SuggestionsFor(outcome).type)
    /\ app_pc' = "done"
    /\ UNCHANGED <<app_text, app_model_dir, app_calls, app_prediction, app_suggest_args,
                   OtherThanApp>>

\* Streamlit reruns the script for the next interaction, with the text then
\* in the text area
script_rerun ==
    /\ app_pc \in {"warned", "done", "crashed"}
    /\ app_text' \in AppTexts
    /\ app_pc' = "idle"
    /\ app_calls' = NoCalls
    /\ app_prediction' = None
    /\ app_suggest_args' = None
    /\ app_ui' = <<>>
    /\ UNCHANGED <<app_model_dir, OtherThanApp>>

NextApp ==
    \/ button_activated
    \/ full_predict_returns
    \/ full_predict_raises
    \/ call_generate_gpt_suggestions
    \/ generate_gpt_suggestions_returns
    \/ script_rerun

\* the text has a character that is not white space
HasInk(text) == \E i \in DOMAIN text : text[i] \notin Whitespace

\* C8: an activation with empty or whitespace-only text shows the warning and
\* calls neither function; an activation with other text calls full_predict
\* exactly once and, only after it returned, generate_gpt_suggestions exactly
\* once, with the same text and the species and probability full_predict
\* returned.
C8_ActivationOrder ==
    /\ ~ HasInk(app_text) =>
          /\ app_calls = NoCalls
          /\ app_pc \in {"idle", "warned"}
          /\ app_pc = "warned" => app_ui = <<"warning: Please enter some text.">>
    /\ HasInk(app_text) =>
          /\ app_pc # "warned"
          /\ app_pc # "idle" => app_calls.full_predict = 1
          /\ app_pc = "done" => app_calls.generate_gpt_suggestions = 1
    /\ app_calls.full_predict <= 1
    /\ app_calls.generate_gpt_suggestions <= 1
    /\ app_calls.generate_gpt_suggestions = 1 =>
          /\ app_calls.full_predict = 1
          /\ app_prediction # None
          /\ app_suggest_args = Some([text |-> app_text,
                                      pet_type |-> app_prediction[1].pet_type,
                                      prob |-> app_prediction[1].prob])
    /\ app_prediction # None =>
          app_prediction[1].pet_type = PetTypeOf(app_text)

\* a completed activation on a text with surrounding white space: both calls
\* made once, the suggestion call carrying the text as typed
C8_Witness ==
    /\ app_pc = "done"
    /\ app_calls = [full_predict |-> 1, generate_gpt_suggestions |-> 1]
    /\ app_text # Strip(app_text)
    /\ app_suggest_args[1].text = app_text
    /\ Len(app_ui) = 3

(***************************************************************************)
(* Batch command line: src/bin/main.py                                     *)
(***************************************************************************)
MaxOldLogEntries == 2

TaskChoices == {"regression", "classifier", "cat_vs_dog", "all"}
\* the --task value on the command line: none given, a choice, or another word
CommandLines == {None} \cup {Some(t) : t \in TaskChoices \cup {"other"}}

DefaultTask == "all"

Pipelines == <<"regression", "classifier", "cat_vs_dog">>

Banner(pipeline) ==
    CASE pipeline = "regression" -> "Running Regression Analysis..."
      [] pipeline = "classifier" -> "Running Engagement Classification..."
      [] pipeline = "cat_vs_dog" -> "Running Cat vs Dog Diverging Style Analysis..."

Separator == "---"

LogStmt(message) == [op |-> "log", arg |-> message]
RunStmt(pipeline) == [op |-> "run", arg |-> pipeline]

\* a variant whose "all" branch stops after the classifier
BranchWithoutCatVsDog(task) ==
    CASE task = "regression" -> <<LogStmt(Banner("regression")), RunStmt("regression")>>
      [] task = "classifier" -> <<LogStmt(Banner("classifier")), RunStmt("classifier")>>
      [] task = "cat_vs_dog" -> <<LogStmt(Banner("cat_vs_dog")), RunStmt("cat_vs_dog")>>
      [] task = "all" ->
            <<LogStmt(Banner("regression")), RunStmt("regression"),
              LogStmt(Separator),
              LogStmt(Banner("classifier")), RunStmt("classifier")>>

\* the statements of the branch of main() taken for args.task
Branch(task) ==
    CASE task = "regression" -> <<LogStmt(Banner("regression")), RunStmt("regression")>>
      [] task = "classifier" -> <<LogStmt(Banner("classifier")), RunStmt("classifier")>>
      [] task = "cat_vs_dog" -> <<LogStmt(Banner("cat_vs_dog")), RunStmt("cat_vs_dog")>>
      [] task = "all" ->
            <<LogStmt(Banner("regression")), RunStmt("regression"),
              LogStmt(Separator),
              LogStmt(Banner("classifier")), RunStmt("classifier"),
              LogStmt(Separator),
              LogStmt(Banner("cat_vs_dog")), RunStmt("cat_vs_dog")>>

InitCli ==
    /\ cli_argv \in CommandLines
    /\ cli_task = ""
    /\ cli_pc = 0
    /\ cli_running = FALSE
    /\ cli_log \in SeqsUpTo({"earlier entry"}, MaxOldLogEntries)
    /\ cli_events = <<>>

IdleCli ==
    /\ cli_argv = None
    /\ cli_task = "idle"
    /\ cli_pc = 0
    /\ cli_running = FALSE
    /\ cli_log = <<>>
    /\ cli_events = <<>>

OtherThanCli == <<mergeVars, filterVars, labelVars, predictVars, moneyVars, cleanVars,
                  gptVars, appVars, trainVars, petVars, sweepVars, capVars, unifiedVars, prepareVars, styleVars, featuresVars, assignVars, collectorVars, logsVars, driverVars, targetedVars>>

\* parser.parse_args(): the default when no --task is given, exit on a word
\* that is not a choice
parse_args ==
    /\ cli_task = ""
    /\ cli_task' = IF cli_argv = None THEN DefaultTask
                   ELSE IF cli_argv[1] \in TaskChoices THEN cli_argv[1]
                   ELSE "usage error"
    /\ cli_pc' = 1
    /\ UNCHANGED <<cli_argv, cli_running, cli_log, cli_events, OtherThanCli>>

AtStatement(op) ==
    /\ cli_task \in TaskChoices
    /\ cli_pc \in DOMAIN Branch(cli_task)
    /\ Branch(cli_task)[cli_pc].op = op

\* logging.info(...)
log_info ==
    /\ AtStatement("log")
    /\ cli_log' = Append(cli_log, Branch(cli_task)[cli_pc].arg)
    /\ cli_pc' = cli_pc + 1
    /\ UNCHANGED <<cli_argv, cli_task, cli_running, cli_events, OtherThanCli>>

\* a pipeline function is called
pipeline_called ==
    /\ AtStatement("run")
    /\ ~ cli_running
    /\ cli_running' = TRUE
    /\ cli_events' = Append(cli_events, [event |-> "start", pipeline |-> Branch(cli_task)[cli_pc].arg])
    /\ UNCHANGED <<cli_argv, cli_task, cli_pc, cli_log, OtherThanCli>>

\* the running pipeline returns
pipeline_returns ==
    /\ AtStatement("run")
    /\ cli_running
    /\ cli_running' = FALSE
    /\ cli_events' = Append(cli_events, [event |-> "return", pipeline |-> Branch(cli_task)[cli_pc].arg])
    /\ cli_pc' = cli_pc + 1
    /\ UNCHANGED <<cli_argv, cli_task, cli_log, OtherThanCli>>

\* the running pipeline raises: main() ends with the traceback
pipeline_raises ==
    /\ AtStatement("run")
    /\ cli_running
    /\ cli_running' = FALSE
    /\ cli_events' = Append(cli_events, [event |-> "raise", pipeline |-> Branch(cli_task)[cli_pc].arg])
    /\ cli_task' = "crashed"
    /\ UNCHANGED <<cli_argv, cli_pc, cli_log, OtherThanCli>>

NextCli ==
    \/ parse_args
    \/ log_info
    \/ pipeline_called
    \/ pipeline_returns
    \/ pipeline_raises

\* the pipelines a command line is to run, in order
ExpectedRuns(argv) ==
    IF argv = None \/ argv = Some("all") THEN <<"regression", "classifier", "cat_vs_dog">>
    ELSE IF argv[1] \in {"regression", "classifier", "cat_vs_dog"} THEN <<argv[1]>>
    ELSE <<>>

Starts == SelectSeq(cli_events, LAMBDA e : e.event = "start")
IsBanner(m) == \E k \in DOMAIN Pipelines : m = Banner(Pipelines[k])
BannersLogged == SelectSeq(cli_log, IsBanner)
CliFinished == cli_task \in TaskChoices /\ cli_pc = Len(Branch(cli_task)) + 1

\* C10: with --task all or no --task the pipelines start in the order
\* regression, classifier, cat_vs_dog, each after the previous one returned
\* and after its own banner was logged; with a single task only that pipeline
\* runs; a run that ends normally has run all of them.
C10_PipelineOrder ==
    /\ Len(Starts) <= Len(ExpectedRuns(cli_argv))
    /\ \A k \in DOMAIN Starts : Starts[k].pipeline = ExpectedRuns(cli_argv)[k]
    /\ \A k \in DOMAIN cli_events :
          cli_events[k].event = "start" =>
              (k = 1 \/ cli_events[k - 1].event = "return")
    /\ Len(BannersLogged) >= Len(Starts)
    /\ \A k \in DOMAIN Starts : BannersLogged[k] = Banner(Starts[k].pipeline)
    /\ CliFinished =>
          /\ Len(Starts) = Len(ExpectedRuns(cli_argv))
          /\ \A k \in DOMAIN cli_events :
                cli_events[k] = [event |-> IF k % 2 = 1 THEN "start" ELSE "return",
                                 pipeline |-> ExpectedRuns(cli_argv)[(k + 1) \div 2]]

\* a run without --task that ended after all three pipelines returned
C10_Witness ==
    /\ cli_argv = None
    /\ CliFinished
    /\ Len(cli_events) = 6
    /\ cli_events[6] = [event |-> "return", pipeline |-> "cat_vs_dog"]

(***************************************************************************)
(* new_engagement_regression.py: run_regression_analysis and               *)
(* new_engagement_classifier.py: run_engagement_classification.            *)
(* The two pipelines read the processed CSV files of a data directory and  *)
(* write plots, coefficient tables and (optionally) fitted pipelines.  A   *)
(* file name is a text; a directory is a base and the relative path the    *)
(* caller passed.                                                          *)
(***************************************************************************)
CatsPostsCsv == "cats_all_post_processed.csv"
DogsPostsCsv == "dogs_all_posts_processed.csv"
CatsCommentsCsv == "cats_all_comments_processed.csv"
DogsCommentsCsv == "dogs_all_comments_processed.csv"
PostsCsvs == {CatsPostsCsv, DogsPostsCsv}
CommentsCsvs == {CatsCommentsCsv, DogsCommentsCsv}

KwCats == <<"c", "a", "t", "s">>
KwDogs == <<"d", "o", "g", "s">>
KwLogistic == <<"l", "o", "g", "i", "s", "t", "i", "c">>
KwRf == <<"r", "f">>

\* text.replace(" ", "_")
ReplaceSpace(text) == [i \in DOMAIN text |-> IF text[i] = " " THEN "_" ELSE text[i]]

\* the labels run_regression_analysis passes, in call order
PostLabels == <<<<"C", "a", "t", "s", " ", "P", "o", "s", "t", "s">>,
                <<"D", "o", "g", "s", " ", "P", "o", "s", "t", "s">>>>
CommentLabels == <<<<"C", "a", "t", "s", " ", "C", "o", "m", "m", "e", "n", "t", "s">>,
                   <<"D", "o", "g", "s", " ", "C", "o", "m", "m", "e", "n", "t", "s">>>>

\* save_dir / f"{label.lower().replace(' ', '_')}_feature_coefficients.csv"
CoefCsvName(label) ==
    ReplaceSpace(Lower(label)) \o <<"_", "f", "e", "a", "t", "u", "r", "e", "_", "c", "o", "e", "f", "f", "i", "c", "i", "e", "n", "t", "s", ".", "c", "s", "v">>

\* save_dir / f"{label.lower().replace(' ', '_')}_feature_importance.png"
ImportancePlotName(label) ==
    ReplaceSpace(Lower(label)) \o <<"_", "f", "e", "a", "t", "u", "r", "e", "_", "i", "m", "p", "o", "r", "t", "a", "n", "c", "e", ".", "p", "n", "g">>

\* the four run_classifier calls, in call order
ClassifierRuns == <<[save_prefix |-> KwCats, model |-> KwLogistic],
                    [save_prefix |-> KwDogs, model |-> KwLogistic],
                    [save_prefix |-> KwCats, model |-> KwRf],
                    [save_prefix |-> KwDogs, model |-> KwRf]>>

\* save_dir_absolute / f"{save_prefix}_{model}_roc.png"
RocPlotName(save_prefix, model) ==
    save_prefix \o <<"_">> \o model \o <<"_", "r", "o", "c", ".", "p", "n", "g">>

FeaturePlotAsJpeg(save_prefix, model) ==
    save_prefix \o <<"_">> \o model \o <<"_", "f", "e", "a", "t", "u", "r", "e", "_", "i", "m", "p", "o", "r", "t", "a", "n", "c", "e", ".", "j", "p", "g">>

\* save_dir_absolute / f"{save_prefix}_{model}_feature_importance.png"
FeaturePlotName(save_prefix, model) ==
    save_prefix \o <<"_">> \o model \o <<"_", "f", "e", "a", "t", "u", "r", "e", "_", "i", "m", "p", "o", "r", "t", "a", "n", "c", "e", ".", "p", "n", "g">>

ModelFileNameRfOnly(save_prefix, model) ==
    save_prefix \o <<"_">> \o KwRf \o <<"_", "p", "i", "p", "e", "l", "i", "n", "e", ".", "p", "k", "l">>

\* model_dir_absolute / f"{save_prefix}_{model}_pipeline.pkl"
ModelFileName(save_prefix, model) ==
    save_prefix \o <<"_">> \o model \o <<"_", "p", "i", "p", "e", "l", "i", "n", "e", ".", "p", "k", "l">>

\* (project_root / model_dir).resolve()
ModelDirAbsolute == [base |-> "project_root", rel |-> "model_dir"]
\* (project_root / save_dir).resolve() in the classifier
ClassifierSaveDir == [base |-> "project_root", rel |-> "save_dir"]
\* Path(save_dir).resolve() in the regression: relative to the working directory
RegressionSaveDir(cwd) == [base |-> cwd, rel |-> "save_dir"]

\* the files one run_classifier call writes, in the order it writes them
ClassifierWrites(run, save_model) ==
    <<[dir |-> ClassifierSaveDir, name |-> RocPlotName(run.save_prefix, run.model)]>>
    \o (IF run.model = KwRf
        THEN <<[dir |-> ClassifierSaveDir,
                name |-> FeaturePlotName(run.save_prefix, run.model)]>>
        ELSE <<>>)
    \o (IF save_model
        THEN <<[dir |-> ModelDirAbsolute,
                name |-> ModelFileName(run.save_prefix, run.model)]>>
        ELSE <<>>)

\* the files analyze_engagement / analyze_comment_engagement write
RegressionWrites(label, cwd) ==
    <<[dir |-> RegressionSaveDir(cwd), name |-> CoefCsvName(label)],
      [dir |-> RegressionSaveDir(cwd), name |-> ImportancePlotName(label)]>>

InitTrain ==
    /\ train_save_model \in BOOLEAN
    /\ train_cwd \in {"project_root", "elsewhere"}
    /\ train_data_dir \in SUBSET (PostsCsvs \cup CommentsCsvs)
    /\ train_writes = <<>>
    /\ train_reg_pc = "idle"
    /\ train_reg_done = 0
    /\ train_cls_pc = "idle"
    /\ train_cls_done = 0

IdleTrain ==
    /\ train_save_model = FALSE
    /\ train_cwd = "project_root"
    /\ train_data_dir = {}
    /\ train_writes = <<>>
    /\ train_reg_pc = "off"
    /\ train_reg_done = 0
    /\ train_cls_pc = "off"
    /\ train_cls_done = 0

OtherThanTrain == <<mergeVars, filterVars, labelVars, predictVars, moneyVars, cleanVars, gptVars, appVars, cliVars, petVars, sweepVars, capVars, unifiedVars, prepareVars, styleVars, featuresVars, assignVars, collectorVars, logsVars, driverVars, targetedVars>>

\* run_regression_analysis up to the first analysis: the four pd.read_csv
\* calls raise when a file is missing
run_regression_analysis ==
    /\ train_reg_pc = "idle"
    /\ train_cls_pc # "running"
    /\ train_reg_pc' = IF (PostsCsvs \cup CommentsCsvs) \subseteq train_data_dir
                       THEN "running" ELSE "raised"
    /\ UNCHANGED <<train_save_model, train_cwd, train_data_dir, train_writes,
                   train_reg_done, train_cls_pc, train_cls_done, OtherThanTrain>>

\* analyze_engagement(df, label, save_dir) returns
analyze_engagement ==
    /\ train_reg_pc = "running"
    /\ train_reg_done < Len(PostLabels)
    /\ train_writes' = train_writes
                       \o RegressionWrites(PostLabels[train_reg_done + 1], train_cwd)
    /\ train_reg_done' = train_reg_done + 1
    /\ UNCHANGED <<train_save_model, train_cwd, train_data_dir, train_reg_pc,
                   train_cls_pc, train_cls_done, OtherThanTrain>>

\* analyze_comment_engagement(df, label, save_dir) returns
analyze_comment_engagement ==
    /\ train_reg_pc = "running"
    /\ train_reg_done >= Len(PostLabels)
    /\ train_reg_done < Len(PostLabels) + Len(CommentLabels)
    /\ train_writes' = train_writes
                       \o RegressionWrites(CommentLabels[train_reg_done - Len(PostLabels) + 1],
                                           train_cwd)
    /\ train_reg_done' = train_reg_done + 1
    /\ train_reg_pc' = IF train_reg_done' = Len(PostLabels) + Len(CommentLabels)
                       THEN "done" ELSE "running"
    /\ UNCHANGED <<train_save_model, train_cwd, train_data_dir,
                   train_cls_pc, train_cls_done, OtherThanTrain>>

\* an analysis raises while splitting or fitting, before it writes anything
analysis_raises ==
    /\ train_reg_pc = "running"
    /\ train_reg_pc' = "raised"
    /\ UNCHANGED <<train_save_model, train_cwd, train_data_dir, train_writes,
                   train_reg_done, train_cls_pc, train_cls_done, OtherThanTrain>>

\* run_engagement_classification up to the first run_classifier call: the two
\* pd.read_csv calls raise when a file is missing
run_engagement_classification ==
    /\ train_cls_pc = "idle"
    /\ train_reg_pc # "running"
    /\ train_cls_pc' = IF PostsCsvs \subseteq train_data_dir THEN "running" ELSE "raised"
    /\ UNCHANGED <<train_save_model, train_cwd, train_data_dir, train_writes,
                   train_reg_pc, train_reg_done, train_cls_done, OtherThanTrain>>

\* run_classifier(df, label, model, save_prefix, save_model, model_dir_absolute)
\* returns
run_classifier ==
    /\ train_cls_pc = "running"
    /\ train_writes' = train_writes
                       \o ClassifierWrites(ClassifierRuns[train_cls_done + 1],
                                           train_save_model)
    /\ train_cls_done' = train_cls_done + 1
    /\ train_cls_pc' = IF train_cls_done' = Len(ClassifierRuns) THEN "done" ELSE "running"
    /\ UNCHANGED <<train_save_model, train_cwd, train_data_dir,
                   train_reg_pc, train_reg_done, OtherThanTrain>>

\* run_classifier raises while splitting or fitting, before it writes anything
run_classifier_raises ==
    /\ train_cls_pc = "running"
    /\ train_cls_pc' = "raised"
    /\ UNCHANGED <<train_save_model, train_cwd, train_data_dir, train_writes,
                   train_reg_pc, train_reg_done, train_cls_done, OtherThanTrain>>

NextTrain ==
    \/ run_regression_analysis
    \/ analyze_engagement
    \/ analyze_comment_engagement
    \/ analysis_raises
    \/ run_engagement_classification
    \/ run_classifier
    \/ run_classifier_raises

\* the files written into the model directory, in the order they were written
TrainModelWrites == SelectSeq(train_writes, LAMBDA w : w.dir = ModelDirAbsolute)

\* the files written into a save directory, in the order they were written
TrainSaveWrites == SelectSeq(train_writes, LAMBDA w : w.dir # ModelDirAbsolute)

\* the artifact names the claim spells out, in the order of the four runs
ExpectedArtifacts == <<<<"c", "a", "t", "s", "_", "l", "o", "g", "i", "s", "t", "i", "c", "_", "p", "i", "p", "e", "l", "i", "n", "e", ".", "p", "k", "l">>,
                       <<"d", "o", "g", "s", "_", "l", "o", "g", "i", "s", "t", "i", "c", "_", "p", "i", "p", "e", "l", "i", "n", "e", ".", "p", "k", "l">>,
                       <<"c", "a", "t", "s", "_", "r", "f", "_", "p", "i", "p", "e", "l", "i", "n", "e", ".", "p", "k", "l">>,
                       <<"d", "o", "g", "s", "_", "r", "f", "_", "p", "i", "p", "e", "l", "i", "n", "e", ".", "p", "k", "l">>>>

RECURSIVE Join(_)
\* "".join(chars)
Join(chars) == IF chars = <<>> THEN "" ELSE Head(chars) \o Join(Tail(chars))

\* C11: with save_model enabled every completed (species, family) run has
\* written exactly one artifact <cats|dogs>_<logistic|rf>_pipeline.pkl into the
\* model directory and nothing else is written there (four after a full run,
\* among them the two files the predictor loads); with save_model disabled no
\* file is ever written into the model directory.
C11_ArtifactPerRun ==
    /\ train_save_model =>
          /\ Len(TrainModelWrites) = train_cls_done
          /\ \A k \in 1..train_cls_done :
                TrainModelWrites[k].name = ExpectedArtifacts[k]
          /\ train_cls_pc = "done" =>
                /\ Len(TrainModelWrites) = 4
                /\ \E k \in 1..4 : Join(TrainModelWrites[k].name) = CatsArtifact
                /\ \E k \in 1..4 : Join(TrainModelWrites[k].name) = DogsArtifact
    /\ ~train_save_model => TrainModelWrites = <<>>

\* a full classification run with save_model enabled
C11_Witness ==
    /\ train_save_model
    /\ train_cls_pc = "done"
    /\ Len(TrainModelWrites) = 4

\* a full classification run with save_model disabled
C11_WitnessNoSave ==
    /\ ~train_save_model
    /\ train_cls_pc = "done"
    /\ Len(TrainSaveWrites) > 0

\* str.endswith(suffix)
EndsWith(text, suffix) ==
    /\ Len(text) >= Len(suffix)
    /\ SubSeq(text, Len(text) - Len(suffix) + 1, Len(text)) = suffix

\* C18: with model saving disabled every file the two pipelines write has
\* extension .png or .csv, and once both have run to the end each of them has
\* written at least one file into its save directory.
C18_PngOrCsvOnly ==
    ~train_save_model =>
        /\ \A i \in DOMAIN train_writes :
              \/ EndsWith(train_writes[i].name, <<".", "p", "n", "g">>)
              \/ EndsWith(train_writes[i].name, <<".", "c", "s", "v">>)
        /\ (train_reg_pc = "done" /\ train_cls_pc = "done") =>
              /\ \E i \in DOMAIN train_writes :
                    train_writes[i].dir = RegressionSaveDir(train_cwd)
              /\ \E i \in DOMAIN train_writes :
                    train_writes[i].dir = ClassifierSaveDir

\* both pipelines ran to the end on the same save directory, saving disabled
C18_Witness ==
    /\ ~train_save_model
    /\ train_cwd = "project_root"
    /\ train_reg_pc = "done"
    /\ train_cls_pc = "done"
    /\ Len(train_writes) = 14

(***************************************************************************)
(* Species classifier: src/utils/data-collection/cat_or_dog.py             *)
(* A row of post_first.csv has a subreddit, a post_title and a body; the   *)
(* columns process_csv only copies are left out.                           *)
(***************************************************************************)
MaxPetRows == 2
MaxPetFragments == 2

PetSubreddits == {<<"C", "a", "t", "A", "d", "v", "i", "c", "e">>,
                  <<"r", "e", "s", "c", "u", "e", "d", "o", "g", "s">>,
                  <<"a", "w", "w">>,
                  <<"P", "e", "t", "A", "d", "v", "i", "c", "e">>,
                  <<"b", "i", "r", "d", "s">>}
PetTitles == {Some(<<"C", "a", "t">>), None}
PetFragments == {<<"c", "a", "t">>, <<" ", "d", "o", "g", " ">>, <<"s">>}
PetBodies == {Some(t) : t \in TextsOf(PetFragments, MaxPetFragments)} \cup {None}
PostFirstRows == [subreddit : PetSubreddits, post_title : PetTitles, body : PetBodies]

CatSubreddits == {<<"c", "a", "t", "s">>, <<"c", "a", "t", "a", "d", "v", "i", "c", "e">>}
DogSubreddits == {<<"d", "o", "g", "s">>, <<"d", "o", "g", "a", "d", "v", "i", "c", "e">>, <<"r", "e", "s", "c", "u", "e", "d", "o", "g", "s">>}
AmbiguousSubreddits == {<<"a", "w", "w">>, <<"p", "e", "t", "a", "d", "v", "i", "c", "e">>}

cat_keywords == <<<<"c", "a", "t">>, <<"c", "a", "t", "s">>, <<"k", "i", "t", "t", "e", "n">>, <<"k", "i", "t", "t", "e", "n", "s">>,
                  <<"k", "i", "t", "t", "y">>, <<"k", "i", "t", "t", "i", "e", "s">>, <<"f", "e", "l", "i", "n", "e">>>>
dog_keywords == <<<<"d", "o", "g">>, <<"d", "o", "g", "s">>, <<"p", "u", "p", "p", "y">>, <<"p", "u", "p", "p", "i", "e", "s">>,
                  <<"p", "u", "p">>, <<"p", "u", "p", "s">>, <<"c", "a", "n", "i", "n", "e">>>>

\* \w of the re module on the characters of the model
IsWordChar(c) ==
    \/ \E i \in DOMAIN LowerLetters : c \in {LowerLetters[i], UpperLetters[i]}
    \/ c \in Digits
    \/ c = "_"

\* \b between text[i - 1] and text[i]
WordBoundaryAt(text, i) ==
    LET before == i - 1 \in DOMAIN text /\ IsWordChar(text[i - 1])
        after == i \in DOMAIN text /\ IsWordChar(text[i])
    IN  before # after

\* r"\b{}\b".format(word) matches at position i
WordMatchesAt(word, text, i) ==
    /\ StartsWithAt(text, i, word)
    /\ WordBoundaryAt(text, i)
    /\ WordBoundaryAt(text, i + Len(word))

\* re.search(r"\b{}\b".format(word), content)
SearchWord(word, content) == \E i \in DOMAIN content : WordMatchesAt(word, content, i)

\* len(re.findall(r"\b{}\b".format(word), content)), scanning from position i
RECURSIVE FindAllFrom(_, _, _)
FindAllFrom(word, content, i) ==
    IF i > Len(content) THEN 0
    ELSE IF WordMatchesAt(word, content, i)
         THEN 1 + FindAllFrom(word, content, i + Len(word))
         ELSE FindAllFrom(word, content, i + 1)

\* sum(len(re.findall(...)) for word in keywords)
RECURSIVE KeywordCount(_, _)
KeywordCount(keywords, content) ==
    IF keywords = <<>> THEN 0
    ELSE FindAllFrom(Head(keywords), content, 1) + KeywordCount(Tail(keywords), content)

\* (str(row["post_title"]) + " " + str(row["body"])).lower()
PetContent(row) == Lower(Str(row.post_title) \o <<" ">> \o Str(row.body))

\* a variant that settles a tie in favour of the cat
DeterminePetTypeTieIsCat(row) ==
    LET subreddit == Lower(row.subreddit)
        content == PetContent(row)
        has_cat == \E k \in DOMAIN cat_keywords : SearchWord(cat_keywords[k], content)
        has_dog == \E k \in DOMAIN dog_keywords : SearchWord(dog_keywords[k], content)
    IN  IF subreddit \in CatSubreddits THEN Some("cat")
        ELSE IF subreddit \in DogSubreddits THEN Some("dog")
        ELSE IF subreddit \in AmbiguousSubreddits /\ has_cat THEN Some("cat")
        ELSE IF subreddit \in AmbiguousSubreddits /\ has_dog THEN Some("dog")
        ELSE None

\* determine_pet_type(row)
DeterminePetType(row) ==
    LET subreddit == Lower(row.subreddit)
        content == PetContent(row)
        has_cat == \E k \in DOMAIN cat_keywords : SearchWord(cat_keywords[k], content)
        has_dog == \E k \in DOMAIN dog_keywords : SearchWord(dog_keywords[k], content)
        cat_count == KeywordCount(cat_keywords, content)
        dog_count == KeywordCount(dog_keywords, content)
    IN  IF subreddit \in CatSubreddits THEN Some("cat")
        ELSE IF subreddit \in DogSubreddits THEN Some("dog")
        ELSE IF subreddit \notin AmbiguousSubreddits THEN None
        ELSE IF has_cat /\ ~has_dog THEN Some("cat")
        ELSE IF has_dog /\ ~has_cat THEN Some("dog")
        ELSE IF has_cat /\ has_dog /\ cat_count > dog_count THEN Some("cat")
        ELSE IF has_cat /\ has_dog /\ dog_count > cat_count THEN Some("dog")
        ELSE None

\* new_df: one row per input row, keeping its index, with the pet_type column
NewDf(df) ==
    [i \in DOMAIN df |-> [index |-> i,
                          subreddit |-> df[i].subreddit,
                          title |-> df[i].post_title,
                          selftext |-> df[i].body,
                          pet_type |-> DeterminePetType(df[i])]]

\* process_csv: dropna on pet_type, then the two boolean masks
ProcessCsv(df) ==
    LET new_df == SelectSeq(NewDf(df), LAMBDA r : r.pet_type # None)
        cat_df == SelectSeq(new_df, LAMBDA r : r.pet_type = Some("cat"))
        dog_df == SelectSeq(new_df, LAMBDA r : r.pet_type = Some("dog"))
    IN  [cat_df |-> cat_df,
         dog_df |-> dog_df,
         stats |-> [total_processed |-> Len(df),
                    cat_count |-> Len(cat_df),
                    dog_count |-> Len(dog_df),
                    undetermined |-> Len(df) - Len(cat_df) - Len(dog_df)]]

NoPetStats == [total_processed |-> 0, cat_count |-> 0, dog_count |-> 0, undetermined |-> 0]

InitPet ==
    /\ post_first \in UNION {[1..n -> PostFirstRows] : n \in 1..MaxPetRows}
    /\ cat_posts_first = <<>>
    /\ dog_posts_first = <<>>
    /\ pet_stats = NoPetStats
    /\ pet_pc = "start"

IdlePet ==
    /\ post_first = <<>>
    /\ cat_posts_first = <<>>
    /\ dog_posts_first = <<>>
    /\ pet_stats = NoPetStats
    /\ pet_pc = "idle"

OtherThanPet == <<mergeVars, filterVars, labelVars, predictVars, moneyVars, cleanVars, gptVars, appVars, cliVars, trainVars, sweepVars, capVars, unifiedVars, prepareVars, styleVars, featuresVars, assignVars, collectorVars, logsVars, driverVars, targetedVars>>

\* process_csv(input_path, output_dir)
process_csv ==
    /\ pet_pc = "start"
    /\ LET out == ProcessCsv(post_first)
       IN  /\ cat_posts_first' = out.cat_df
           /\ dog_posts_first' = out.dog_df
           /\ pet_stats' = out.stats
    /\ pet_pc' = "done"
    /\ UNCHANGED <<post_first, OtherThanPet>>

NextPet == process_csv

\* the communities the claim names, as Reddit spells them
ExplicitCatCommunities == {<<"c", "a", "t", "s">>, <<"C", "a", "t", "A", "d", "v", "i", "c", "e">>}
ExplicitDogCommunities == {<<"d", "o", "g", "s">>, <<"D", "o", "g", "A", "d", "v", "i", "c", "e">>, <<"r", "e", "s", "c", "u", "e", "d", "o", "g", "s">>}
AmbiguousCommunities == {<<"a", "w", "w">>, <<"P", "e", "t", "A", "d", "v", "i", "c", "e">>}

\* the words of a text: the maximal runs of letters, digits and underscores
WordsOf(text) ==
    {<<a, b>> \in (DOMAIN text) \X (DOMAIN text) :
        /\ a <= b
        /\ \A k \in a..b : IsWordChar(text[k])
        /\ (a = 1 \/ ~IsWordChar(text[a - 1]))
        /\ (b = Len(text) \/ ~IsWordChar(text[b + 1]))}

\* a word of the text is the keyword, whatever its case
IsKeyword(text, w, kw) ==
    /\ w[2] - w[1] + 1 = Len(kw)
    /\ \A k \in 1..Len(kw) : text[w[1] + k - 1] \in {kw[k], UpperOfLower(kw[k])}

\* the number of words of the text that are keywords of the family
Occurrences(text, keywords) ==
    Cardinality({w \in WordsOf(text) :
                    \E k \in DOMAIN keywords : IsKeyword(text, w, keywords[k])})

\* the text of a row: title and body with a space between them
RowText(row) == Str(row.post_title) \o <<" ">> \o Str(row.body)

\* the label the claim gives a row of an explicit or ambiguous community
ClaimedLabel(row) ==
    LET cats == Occurrences(RowText(row), cat_keywords)
        dogs == Occurrences(RowText(row), dog_keywords)
    IN  IF row.subreddit \in ExplicitCatCommunities THEN "cat"
        ELSE IF row.subreddit \in ExplicitDogCommunities THEN "dog"
        ELSE IF cats > dogs THEN "cat"
        ELSE IF dogs > cats THEN "dog"
        ELSE "unlabeled"

InFile(file, i) == \E k \in DOMAIN file : file[k].index = i

\* C12: after process_csv a row of an explicit cat (dog) community is in the
\* cat (dog) file whatever its text; a row of an ambiguous community is in the
\* file of the keyword family with strictly more word-boundary occurrences in
\* title and body (which covers "only one family occurs") and in neither file
\* when no keyword occurs or the counts tie; no row is in both files and each
\* file holds only rows carrying its label.
C12_SpeciesSplit ==
    pet_pc = "done" =>
        /\ \A i \in DOMAIN post_first :
              LET row == post_first[i]
              IN  /\ ~(InFile(cat_posts_first, i) /\ InFile(dog_posts_first, i))
                  /\ row.subreddit \in ExplicitCatCommunities \cup ExplicitDogCommunities
                                        \cup AmbiguousCommunities =>
                        /\ InFile(cat_posts_first, i) <=> ClaimedLabel(row) = "cat"
                        /\ InFile(dog_posts_first, i) <=> ClaimedLabel(row) = "dog"
        /\ \A k \in DOMAIN cat_posts_first : cat_posts_first[k].pet_type = Some("cat")
        /\ \A k \in DOMAIN dog_posts_first : dog_posts_first[k].pet_type = Some("dog")
        /\ \A k, l \in DOMAIN cat_posts_first :
              cat_posts_first[k].index = cat_posts_first[l].index => k = l
        /\ \A k, l \in DOMAIN dog_posts_first :
              dog_posts_first[k].index = dog_posts_first[l].index => k = l

\* an ambiguous-community row where both families occur and the cat wins next
\* to an ambiguous-community row with a tie, which is dropped
C12_Witness ==
    /\ pet_pc = "done"
    /\ \E i, j \in DOMAIN post_first :
          /\ post_first[i].subreddit \in AmbiguousCommunities
          /\ post_first[j].subreddit \in AmbiguousCommunities
          /\ Occurrences(RowText(post_first[i]), dog_keywords) > 0
          /\ Occurrences(RowText(post_first[i]), cat_keywords)
                > Occurrences(RowText(post_first[i]), dog_keywords)
          /\ InFile(cat_posts_first, i)
          /\ Occurrences(RowText(post_first[j]), dog_keywords) > 0
          /\ Occurrences(RowText(post_first[j]), cat_keywords)
                = Occurrences(RowText(post_first[j]), dog_keywords)
          /\ ~InFile(cat_posts_first, j) /\ ~InFile(dog_posts_first, j)

(***************************************************************************)
(* Expanded resumable collector: src/utils/data-collection/data_v2.py      *)
(* The main script sweeps one community after another.  collect_pet_posts  *)
(* gathers what it accepts in lists of its own and the main loop extends   *)
(* the four module-level lists when it returns.  A post is its id, a       *)
(* comment the pair of its post and its rank.  The target counts (5000)    *)
(* and the incremental saves (from 1500 posts on) are out of reach of the  *)
(* runs below and are left out.                                            *)
(***************************************************************************)
MaxSweepPosts == 2
MaxSweepComments == 1

\* the communities swept, in order, with the pet_type the main loop passes
SweepPlan == <<[sub |-> "cats", pet_type |-> "cat"],
               [sub |-> "dogs", pet_type |-> "dog"],
               [sub |-> "chicago", pet_type |-> "both"]>>

NoLists == [cat_posts |-> <<>>, dog_posts |-> <<>>,
            cat_comments |-> <<>>, dog_comments |-> <<>>]

\* the species collect_pet_posts can give a post it accepts
PostPetTypes(pet_type) ==
    CASE pet_type = "cat" -> {"cat"}
      [] pet_type = "dog" -> {"dog"}
      [] OTHER -> {"cat", "dog"}

\* the comments stored for an accepted post
CommentsOf(post_id, n) == [k \in 1..n |-> <<post_id, k>>]

\* new_cat_posts.append / new_dog_posts.append and the comment appends
Accept(new, post_pet_type, post_id, n) ==
    IF post_pet_type = "cat"
    THEN [new EXCEPT !.cat_posts = Append(@, post_id),
                     !.cat_comments = @ \o CommentsOf(post_id, n)]
    ELSE [new EXCEPT !.dog_posts = Append(@, post_id),
                     !.dog_comments = @ \o CommentsOf(post_id, n)]

\* cat_posts.extend(new_cats) ... dog_comments.extend(new_dog_cmts)
Extend(lists, new) ==
    [cat_posts |-> lists.cat_posts \o new.cat_posts,
     dog_posts |-> lists.dog_posts \o new.dog_posts,
     cat_comments |-> lists.cat_comments \o new.cat_comments,
     dog_comments |-> lists.dog_comments \o new.dog_comments]

\* the four emergency files of an except handler
EmergencyFiles(suffix, lists) == Some([suffix |-> suffix, files |-> lists])

InitSweep ==
    /\ sweep_lists \in {[NoLists EXCEPT !.cat_posts = c, !.dog_posts = d] :
                           c \in {<<>>, <<"old_cat">>}, d \in {<<>>, <<"old_dog">>}}
    /\ sweep_new = NoLists
    /\ sweep_sub = 1
    /\ sweep_pc = "main"
    /\ sweep_next_id = 1
    /\ sweep_accepted = NoLists
    /\ sweep_emergency = None
    /\ sweep_final = None

IdleSweep ==
    /\ sweep_lists = NoLists
    /\ sweep_new = NoLists
    /\ sweep_sub = 0
    /\ sweep_pc = "off"
    /\ sweep_next_id = 0
    /\ sweep_accepted = NoLists
    /\ sweep_emergency = None
    /\ sweep_final = None

OtherThanSweep == <<mergeVars, filterVars, labelVars, predictVars, moneyVars, cleanVars, gptVars, appVars, cliVars, trainVars, petVars, capVars, unifiedVars, prepareVars, styleVars, featuresVars, assignVars, collectorVars, logsVars, driverVars, targetedVars>>

\* the main loop calls collect_pet_posts(sub, pet_type)
collect_pet_posts_called ==
    /\ sweep_pc = "main"
    /\ sweep_sub <= Len(SweepPlan)
    /\ sweep_new' = NoLists
    /\ sweep_pc' = "sweeping"
    /\ UNCHANGED <<sweep_lists, sweep_sub, sweep_next_id, sweep_accepted,
                   sweep_emergency, sweep_final, OtherThanSweep>>

\* one iteration of a search / browse loop that accepts the post: post_info
\* and the post's comments are appended to the lists of collect_pet_posts
post_accepted ==
    /\ sweep_pc = "sweeping"
    /\ sweep_next_id <= MaxSweepPosts
    /\ \E post_pet_type \in PostPetTypes(SweepPlan[sweep_sub].pet_type),
          n \in 0..MaxSweepComments :
          /\ sweep_new' = Accept(sweep_new, post_pet_type, sweep_next_id, n)
          /\ sweep_accepted' = Accept(sweep_accepted, post_pet_type, sweep_next_id, n)
    /\ sweep_next_id' = sweep_next_id + 1
    /\ UNCHANGED <<sweep_lists, sweep_sub, sweep_pc, sweep_emergency, sweep_final,
                   OtherThanSweep>>

\* collect_pet_posts returns and the main loop extends the four lists
collect_pet_posts_returns ==
    /\ sweep_pc = "sweeping"
    /\ sweep_lists' = Extend(sweep_lists, sweep_new)
    /\ sweep_new' = NoLists
    /\ sweep_sub' = sweep_sub + 1
    /\ sweep_pc' = "main"
    /\ UNCHANGED <<sweep_next_id, sweep_accepted, sweep_emergency, sweep_final,
                   OtherThanSweep>>

\* Step 8: the final files, after the last community
save_final_result ==
    /\ sweep_pc = "main"
    /\ sweep_sub > Len(SweepPlan)
    /\ sweep_final' = Some(sweep_lists)
    /\ sweep_pc' = "done"
    /\ UNCHANGED <<sweep_lists, sweep_new, sweep_sub, sweep_next_id, sweep_accepted,
                   sweep_emergency, OtherThanSweep>>

\* except KeyboardInterrupt: the frames of collect_pet_posts are gone when the
\* handler runs; it writes the four module-level lists
keyboard_interrupt ==
    /\ sweep_pc \in {"main", "sweeping"}
    /\ sweep_emergency' = EmergencyFiles("interrupted", sweep_lists)
    /\ sweep_new' = NoLists
    /\ sweep_pc' = "exited"
    /\ UNCHANGED <<sweep_lists, sweep_sub, sweep_next_id, sweep_accepted, sweep_final,
                   OtherThanSweep>>

\* except Exception: an error no inner handler catches
unhandled_error ==
    /\ sweep_pc \in {"main", "sweeping"}
    /\ sweep_emergency' = EmergencyFiles("error", sweep_lists)
    /\ sweep_new' = NoLists
    /\ sweep_pc' = "exited"
    /\ UNCHANGED <<sweep_lists, sweep_sub, sweep_next_id, sweep_accepted, sweep_final,
                   OtherThanSweep>>

NextSweep ==
    \/ collect_pet_posts_called
    \/ post_accepted
    \/ collect_pet_posts_returns
    \/ save_final_result
    \/ keyboard_interrupt
    \/ unhandled_error

Items(list) == {list[k] : k \in DOMAIN list}

\* C13: when the run was interrupted or hit an unhandled error, the emergency
\* files hold every cat post, dog post, cat comment and dog comment accepted
\* so far in the run, those of the community being swept included.
C13_FlushHoldsAllAccepted ==
    sweep_emergency # None =>
        LET files == sweep_emergency[1].files
        IN  /\ Items(sweep_accepted.cat_posts) \subseteq Items(files.cat_posts)
            /\ Items(sweep_accepted.dog_posts) \subseteq Items(files.dog_posts)
            /\ Items(sweep_accepted.cat_comments) \subseteq Items(files.cat_comments)
            /\ Items(sweep_accepted.dog_comments) \subseteq Items(files.dog_comments)

(***************************************************************************)
(* Comment collection of an accepted post: the try block of                *)
(* src/utils/data-collection/data_v2.py (collect_pet_posts, twice) and of  *)
(* src/data-collection/data_v1.py (cat and dog loops); the four copies are *)
(* the same statements.  post.comments.list() is a run of low-scored       *)
(* comments, then removed / deleted ones with the highest scores, then a   *)
(* run of high-scored comments.                                            *)
(***************************************************************************)
MaxRunOfComments == 11
MaxSentinels == 2

max_comments_per_post == 10

SentinelBodies == <<<<"[", "r", "e", "m", "o", "v", "e", "d", "]">>, <<"[", "d", "e", "l", "e", "t", "e", "d", "]">>>>

LowScore == 1
HighScore == 5
SentinelScore == 9

\* post.comments.list() for a post with the given runs
CommentList(low, sentinels, high) ==
    [k \in 1..(low + sentinels + high) |->
        IF k <= low
        THEN [comment_id |-> k, score |-> LowScore, body |-> <<"t", "e", "x", "t">>]
        ELSE IF k <= low + sentinels
        THEN [comment_id |-> k, score |-> SentinelScore, body |-> SentinelBodies[((k - low - 1) % Len(SentinelBodies)) + 1]]
        ELSE [comment_id |-> k, score |-> HighScore, body |-> <<"T", "e", "x", "t">>]]

\* one step of the stable sort: c goes behind everything scored at least c.score
InsertByScore(sorted, c) ==
    LET ahead == Cardinality({k \in DOMAIN sorted : sorted[k].score >= c.score})
    IN  SubSeq(sorted, 1, ahead) \o <<c>> \o SubSeq(sorted, ahead + 1, Len(sorted))

\* sorted(comments, key=lambda x: x.score, reverse=True)
RECURSIVE SortedByScore(_)
SortedByScore(comments) ==
    IF comments = <<>> THEN <<>>
    ELSE InsertByScore(SortedByScore(SubSeq(comments, 1, Len(comments) - 1)),
                       comments[Len(comments)])

\* a variant of the loop that takes the comments in the order Reddit lists them
TopCommentsUnsorted(comments) ==
    LET kept == SelectSeq(comments,
                          LAMBDA c : \A k \in DOMAIN SentinelBodies : c.body # SentinelBodies[k])
    IN  SubSeq(kept, 1, IF Len(kept) < max_comments_per_post
                        THEN Len(kept) ELSE max_comments_per_post)

\* the for loop: skip the sentinels, stop at max_comments_per_post
TopComments(comments) ==
    LET kept == SelectSeq(SortedByScore(comments),
                          LAMBDA c : \A k \in DOMAIN SentinelBodies : c.body # SentinelBodies[k])
    IN  SubSeq(kept, 1, IF Len(kept) < max_comments_per_post
                        THEN Len(kept) ELSE max_comments_per_post)

InitCap ==
    /\ cap_comments \in {CommentList(low, sentinels, high) :
                            low \in 0..MaxRunOfComments,
                            sentinels \in 0..MaxSentinels,
                            high \in 0..MaxRunOfComments}
    /\ cap_stored = <<>>
    /\ cap_pc = "accepted"

IdleCap ==
    /\ cap_comments = <<>>
    /\ cap_stored = <<>>
    /\ cap_pc = "off"

OtherThanCap == <<mergeVars, filterVars, labelVars, predictVars, moneyVars, cleanVars, gptVars, appVars, cliVars, trainVars, petVars, sweepVars, unifiedVars, prepareVars, styleVars, featuresVars, assignVars, collectorVars, logsVars, driverVars, targetedVars>>

\* the try block runs to its end
collect_top_comments ==
    /\ cap_pc = "accepted"
    /\ cap_stored' = TopComments(cap_comments)
    /\ cap_pc' = "collected"
    /\ UNCHANGED <<cap_comments, OtherThanCap>>

\* replace_more or a later statement of the try block raises: what was
\* appended before stays, the handler prints and the post loop goes on
collect_top_comments_raises ==
    /\ cap_pc = "accepted"
    /\ \E n \in 0..Len(TopComments(cap_comments)) :
          /\ n = Len(TopComments(cap_comments)) => n = 0
          /\ cap_stored' = SubSeq(TopComments(cap_comments), 1, n)
    /\ cap_pc' = "failed"
    /\ UNCHANGED <<cap_comments, OtherThanCap>>

NextCap ==
    \/ collect_top_comments
    \/ collect_top_comments_raises

IsSentinel(c) == c.body \in {<<"[", "r", "e", "m", "o", "v", "e", "d", "]">>, <<"[", "d", "e", "l", "e", "t", "e", "d", "]">>}

IsStored(c) == \E k \in DOMAIN cap_stored : cap_stored[k].comment_id = c.comment_id

\* C15: for an accepted post at most 10 comments are stored, none of them has
\* the body "[removed]" or "[deleted]", each is a comment of the post, and no
\* comment of the post that is neither stored nor a sentinel has a strictly
\* higher score than a stored one; when the collection ran to its end, no
\* such comment is left out while fewer than 10 are stored.
C15_TopTenNoSentinels ==
    /\ Len(cap_stored) <= 10
    /\ \A k \in DOMAIN cap_stored :
          /\ ~IsSentinel(cap_stored[k])
          /\ \E j \in DOMAIN cap_comments : cap_comments[j] = cap_stored[k]
          /\ \A l \in DOMAIN cap_stored :
                cap_stored[k].comment_id = cap_stored[l].comment_id => k = l
    /\ \A j \in DOMAIN cap_comments :
          (~IsSentinel(cap_comments[j]) /\ ~IsStored(cap_comments[j])) =>
              /\ \A k \in DOMAIN cap_stored :
                    cap_comments[j].score <= cap_stored[k].score
              /\ cap_pc = "collected" => Len(cap_stored) = 10

\* a post with more than ten comments worth storing, a sentinel scored above
\* them all, low-scored comments listed before high-scored ones and stored
\* next to them
C15_Witness ==
    /\ cap_pc = "collected"
    /\ Len(cap_stored) = 10
    /\ \E j \in DOMAIN cap_comments : IsSentinel(cap_comments[j])
    /\ \E j \in DOMAIN cap_comments :
          ~IsSentinel(cap_comments[j]) /\ ~IsStored(cap_comments[j])
    /\ \E k, l \in DOMAIN cap_stored : cap_stored[k].score > cap_stored[l].score

(***************************************************************************)
(* Unified comment collector: src/utils/data-collection/data_collection.py *)
(* (src/data-collection/data_collection.py is the same script).  A comment *)
(* is the community and submission it was read from and its body.          *)
(***************************************************************************)
NumCommunities == 2
MaxSubmissions == 2
MaxCommentsListed == 2

adoption_keywords == {<<"a", "d", "o", "p", "t">>, <<"a", "d", "o", "p", "t", "i", "o", "n">>, <<"a", "d", "o", "p", "t", "e", "d">>,
                      <<"a", "d", "o", "p", "t", "i", "n", "g">>, <<"r", "e", "h", "o", "m", "e">>, <<"r", "e", "-", "h", "o", "m", "e">>,
                      <<"r", "e", "s", "c", "u", "e">>, <<"r", "e", "s", "c", "u", "e", "d">>, <<"f", "o", "s", "t", "e", "r">>,
                      <<"f", "o", "r", "e", "v", "e", "r", " ", "h", "o", "m", "e">>, <<"s", "h", "e", "l", "t", "e", "r">>}

\* is_adoption_related(text)
IsAdoptionRelated(text) == \E keyword \in adoption_keywords : Contains(Lower(text), keyword)

CommentBodies == {<<"W", "e", " ", "A", "d", "o", "p", "t", "e", "d", " ", "h", "i", "m">>, <<"s", "o", " ", "c", "u", "t", "e">>, <<"[", "r", "e", "m", "o", "v", "e", "d", "]">>}

\* post.comments.list() of one submission
CommentListings == SeqsUpTo(CommentBodies, MaxCommentsListed)

\* the rows the inner loop appends for the first n listed comments
RowsOf(sub, idx, listing, n) ==
    LET rows == [k \in 1..n |-> [subreddit |-> sub, post_id |-> idx, body |-> listing[k]]]
    IN  SelectSeq(rows, LAMBDA r : r.body \notin {<<"[", "r", "e", "m", "o", "v", "e", "d", "]">>, <<"[", "d", "e", "l", "e", "t", "e", "d", "]">>})

\* all_df[all_df["body"].apply(is_adoption_related)]
AdoptionDf(all_df) == SelectSeq(all_df, LAMBDA r : IsAdoptionRelated(r.body))

InitUnified ==
    /\ uc_sub = 1
    /\ uc_idx = 0
    /\ uc_all_comments = <<>>
    /\ uc_events = <<>>
    /\ uc_all_file = None
    /\ uc_adoption_file = None
    /\ uc_pc = "fetching"

IdleUnified ==
    /\ uc_sub = 0
    /\ uc_idx = 0
    /\ uc_all_comments = <<>>
    /\ uc_events = <<>>
    /\ uc_all_file = None
    /\ uc_adoption_file = None
    /\ uc_pc = "off"

OtherThanUnified == <<mergeVars, filterVars, labelVars, predictVars, moneyVars, cleanVars, gptVars, appVars, cliVars, trainVars, petVars, sweepVars, capVars, prepareVars, styleVars, featuresVars, assignVars, collectorVars, logsVars, driverVars, targetedVars>>

\* one iteration of the submission loop whose try block runs to its end: the
\* comments are appended, then time.sleep(1)
submission_processed ==
    /\ uc_pc = "fetching"
    /\ uc_sub <= NumCommunities
    /\ uc_idx < MaxSubmissions
    /\ \E listing \in CommentListings :
          uc_all_comments' = uc_all_comments
                             \o RowsOf(uc_sub, uc_idx, listing, Len(listing))
    /\ uc_events' = uc_events \o <<[sub |-> uc_sub, idx |-> uc_idx, what |-> "processed"],
                                   [sub |-> uc_sub, idx |-> uc_idx, what |-> "sleep"]>>
    /\ uc_idx' = uc_idx + 1
    /\ UNCHANGED <<uc_sub, uc_all_file, uc_adoption_file, uc_pc, OtherThanUnified>>

\* one iteration whose try block raises (replace_more, or a statement of the
\* comment loop after n comments): the handler prints and continues with the
\* next submission
submission_fetch_fails ==
    /\ uc_pc = "fetching"
    /\ uc_sub <= NumCommunities
    /\ uc_idx < MaxSubmissions
    /\ \E listing \in CommentListings, n \in 0..MaxCommentsListed :
          /\ n < Len(listing) \/ n = 0
          /\ uc_all_comments' = uc_all_comments \o RowsOf(uc_sub, uc_idx, listing, n)
    /\ uc_events' = Append(uc_events, [sub |-> uc_sub, idx |-> uc_idx, what |-> "failed"])
    /\ uc_idx' = uc_idx + 1
    /\ UNCHANGED <<uc_sub, uc_all_file, uc_adoption_file, uc_pc, OtherThanUnified>>

\* subreddit.hot(...) is exhausted: on to the next community
listing_ends ==
    /\ uc_pc = "fetching"
    /\ uc_sub <= NumCommunities
    /\ uc_sub' = uc_sub + 1
    /\ uc_idx' = 0
    /\ UNCHANGED <<uc_all_comments, uc_events, uc_all_file, uc_adoption_file, uc_pc,
                   OtherThanUnified>>

\* subreddit.hot(...) raises while the next submission is fetched: the outer
\* handler prints and continues with the next community
listing_raises ==
    /\ uc_pc = "fetching"
    /\ uc_sub <= NumCommunities
    /\ uc_events' = Append(uc_events, [sub |-> uc_sub, idx |-> uc_idx, what |-> "error"])
    /\ uc_sub' = uc_sub + 1
    /\ uc_idx' = 0
    /\ UNCHANGED <<uc_all_comments, uc_all_file, uc_adoption_file, uc_pc,
                   OtherThanUnified>>

\* Step 6: all_df = pd.DataFrame(all_comments); all_df.to_csv(...)
save_all_comments ==
    /\ uc_pc = "fetching"
    /\ uc_sub > NumCommunities
    /\ uc_all_file' = Some(uc_all_comments)
    /\ uc_pc' = "saved_all"
    /\ UNCHANGED <<uc_sub, uc_idx, uc_all_comments, uc_events, uc_adoption_file,
                   OtherThanUnified>>

\* Step 7 on a frame with rows
save_adoption_comments ==
    /\ uc_pc = "saved_all"
    /\ uc_all_comments # <<>>
    /\ uc_adoption_file' = Some(AdoptionDf(uc_all_comments))
    /\ uc_pc' = "done"
    /\ UNCHANGED <<uc_sub, uc_idx, uc_all_comments, uc_events, uc_all_file,
                   OtherThanUnified>>

\* Step 7 on pd.DataFrame([]): the frame has no columns, all_df["body"] raises
\* KeyError and the script ends with a traceback
save_adoption_comments_raises ==
    /\ uc_pc = "saved_all"
    /\ uc_all_comments = <<>>
    /\ uc_pc' = "crashed"
    /\ UNCHANGED <<uc_sub, uc_idx, uc_all_comments, uc_events, uc_all_file,
                   uc_adoption_file, OtherThanUnified>>

NextUnified ==
    \/ submission_processed
    \/ submission_fetch_fails
    \/ listing_ends
    \/ listing_raises
    \/ save_all_comments
    \/ save_adoption_comments
    \/ save_adoption_comments_raises

\* C14: whatever fetches failed, the run is never aborted and when it is over
\* both all_comments.csv and adoption_comments.csv are written, the first
\* holding every comment accumulated.
C14_BothFilesWhateverFailed ==
    /\ uc_pc # "crashed"
    /\ uc_pc = "done" =>
          /\ uc_all_file = Some(uc_all_comments)
          /\ uc_adoption_file # None

\* the part of the claim the script keeps: failures leave what was accumulated
\* in place and every community is still visited
AccumulatedKept ==
    [][/\ Len(uc_all_comments') >= Len(uc_all_comments)
       /\ SubSeq(uc_all_comments', 1, Len(uc_all_comments)) = uc_all_comments
       /\ uc_sub' >= uc_sub]_vars

(***************************************************************************)
(* Cat-versus-dog style analysis, loading: src/mod/cat_vs_dog.py           *)
(* load_and_prepare_data.  A cell read by pd.read_csv is a str or the      *)
(* float NaN; a value of the prepared frame carries its Python type.       *)
(***************************************************************************)
MaxStyleRows == 2

NaNCell == [type |-> "float", value |-> <<>>]
StrCell(text) == [type |-> "str", value |-> text]
ListValue(items) == [type |-> "list", items |-> items]

\* the list literals the processing step stored in the adjectives / verbs cells
WordListLiterals == {<<"[", "'", "F", "l", "u", "f", "f", "y", "'", "]">>,
                    <<"[", "'", "K", "i", "t", "t", "e", "n", "'", ",", " ", "'", "l", "a", "z", "y", "'", "]">>}
WordCells == {StrCell(t) : t \in WordListLiterals} \cup {NaNCell}

WORDS_TO_EXCLUDE == {<<"k", "i", "t", "t", "e", "n">>, <<"p", "u", "p", "p", "y">>}

StyleRows(pet_type) == [pet_type : {pet_type}, adjectives : WordCells, verbs : WordCells]

\* ast.literal_eval on a list of single-quoted words, read from position i on;
\* word is the text of the string literal being read, None outside of one
RECURSIVE LiteralEvalFrom(_, _, _, _)
LiteralEvalFrom(text, i, word, items) ==
    IF i > Len(text) THEN items
    ELSE IF text[i] = "'"
         THEN IF word = None
              THEN LiteralEvalFrom(text, i + 1, Some(<<>>), items)
              ELSE LiteralEvalFrom(text, i + 1, None, Append(items, word[1]))
         ELSE IF word = None
              THEN LiteralEvalFrom(text, i + 1, None, items)
              ELSE LiteralEvalFrom(text, i + 1, Some(Append(word[1], text[i])), items)

\* ast.literal_eval(x) if isinstance(x, str) else []
WordsOfCell(x) == IF x.type = "str" THEN LiteralEvalFrom(x.value, 1, None, <<>>) ELSE <<>>

\* [w for w in words if w.lower() not in WORDS_TO_EXCLUDE]
WithoutExcluded(words) == SelectSeq(words, LAMBDA w : Lower(w) \notin WORDS_TO_EXCLUDE)

\* " ".join(words)
RECURSIVE JoinWithSpace(_)
JoinWithSpace(words) ==
    IF words = <<>> THEN <<>>
    ELSE IF Len(words) = 1 THEN words[1]
    ELSE words[1] \o <<" ">> \o JoinWithSpace(Tail(words))

\* df["pet_type"].map({"cat": 0, "dog": 1})
LabelOfPetType(pet_type) == IF pet_type = "cat" THEN 0 ELSE 1

\* a variant that evaluates the cell only, leaving a missing value as it is
PreparedRowKeepingNaN(row) ==
    LET adjectives == WithoutExcluded(WordsOfCell(row.adjectives))
        verbs == WordsOfCell(row.verbs)
    IN  [pet_type |-> row.pet_type,
         label |-> LabelOfPetType(row.pet_type),
         adjectives |-> IF row.adjectives.type = "str" THEN ListValue(adjectives)
                        ELSE row.adjectives,
         style_text |-> StrCell(JoinWithSpace(adjectives)),
         verbs |-> IF row.verbs.type = "str" THEN ListValue(verbs) ELSE row.verbs,
         verb_text |-> StrCell(JoinWithSpace(verbs))]

\* the columns load_and_prepare_data sets on one row
PreparedRow(row) ==
    LET adjectives == WithoutExcluded(WordsOfCell(row.adjectives))
        verbs == WordsOfCell(row.verbs)
    IN  [pet_type |-> row.pet_type,
         label |-> LabelOfPetType(row.pet_type),
         adjectives |-> ListValue(adjectives),
         style_text |-> StrCell(JoinWithSpace(adjectives)),
         verbs |-> ListValue(verbs),
         verb_text |-> StrCell(JoinWithSpace(verbs))]

\* pd.concat([cat_df, dog_df], ignore_index=True) and the column assignments
LoadAndPrepareData(cat_df, dog_df) ==
    LET df == cat_df \o dog_df
    IN  [i \in DOMAIN df |-> PreparedRow(df[i])]

InitPrepare ==
    /\ style_cat_csv \in SeqsUpTo(StyleRows("cat"), MaxStyleRows)
    /\ style_dog_csv \in SeqsUpTo(StyleRows("dog"), MaxStyleRows)
    /\ style_df = <<>>
    /\ prepare_pc = "start"

IdlePrepare ==
    /\ style_cat_csv = <<>>
    /\ style_dog_csv = <<>>
    /\ style_df = <<>>
    /\ prepare_pc = "off"

OtherThanPrepare == <<mergeVars, filterVars, labelVars, predictVars, moneyVars, cleanVars, gptVars, appVars, cliVars, trainVars, petVars, sweepVars, capVars, unifiedVars, styleVars, featuresVars, assignVars, collectorVars, logsVars, driverVars, targetedVars>>

\* load_and_prepare_data(cat_path, dog_path)
load_and_prepare_data ==
    /\ prepare_pc = "start"
    /\ style_df' = LoadAndPrepareData(style_cat_csv, style_dog_csv)
    /\ prepare_pc' = "returned"
    /\ UNCHANGED <<style_cat_csv, style_dog_csv, OtherThanPrepare>>

NextPrepare == load_and_prepare_data

\* the text holds the words in order with exactly one space between neighbours
RECURSIVE IsSpaceJoined(_, _)
IsSpaceJoined(text, words) ==
    IF words = <<>> THEN text = <<>>
    ELSE LET last == words[Len(words)]
             rest == SubSeq(words, 1, Len(words) - 1)
         IN  /\ Len(text) >= Len(last)
             /\ SubSeq(text, Len(text) - Len(last) + 1, Len(text)) = last
             /\ IF rest = <<>> THEN Len(text) = Len(last)
                ELSE /\ Len(text) > Len(last)
                     /\ text[Len(text) - Len(last)] = " "
                     /\ IsSpaceJoined(SubSeq(text, 1, Len(text) - Len(last) - 1), rest)

\* C17: load_and_prepare_data returns one row per input row, the rows of the
\* cat file first and labelled 0, then the rows of the dog file labelled 1; in
\* every row, also where the stored adjectives or verbs value is missing,
\* adjectives and verbs are lists and style_text and verb_text are strings
\* holding the words of those lists joined by single spaces.
C17_PreparedFrame ==
    prepare_pc = "returned" =>
        /\ Len(style_df) = Len(style_cat_csv) + Len(style_dog_csv)
        /\ \A i \in DOMAIN style_df :
              /\ i <= Len(style_cat_csv) =>
                    style_df[i].pet_type = "cat" /\ style_df[i].label = 0
              /\ i > Len(style_cat_csv) =>
                    style_df[i].pet_type = "dog" /\ style_df[i].label = 1
              /\ style_df[i].adjectives.type = "list"
              /\ style_df[i].verbs.type = "list"
              /\ style_df[i].style_text.type = "str"
              /\ style_df[i].verb_text.type = "str"
              /\ IsSpaceJoined(style_df[i].style_text.value, style_df[i].adjectives.items)
              /\ IsSpaceJoined(style_df[i].verb_text.value, style_df[i].verbs.items)

\* a cat row with a missing adjectives value next to a dog row with two verbs
C17_Witness ==
    /\ prepare_pc = "returned"
    /\ \E i, j \in DOMAIN style_df :
          /\ i <= Len(style_cat_csv)
          /\ style_cat_csv[i].adjectives = NaNCell
          /\ style_df[i].adjectives = ListValue(<<>>)
          /\ j > Len(style_cat_csv)
          /\ Len(style_df[j].verbs.items) = 2
          /\ style_df[j].verb_text.value = <<"K", "i", "t", "t", "e", "n", " ", "l", "a", "z", "y">>
          /\ style_df[j].style_text.value = <<"l", "a", "z", "y">>

(***************************************************************************)
(* Cat-versus-dog style analysis, scoring: src/mod/cat_vs_dog.py           *)
(* run_style_model.  What the vectorizer and the forests compute is an     *)
(* input: for every word of the vocabulary its mean importance and its     *)
(* average TF-IDF among dog and among cat posts, in hundred-thousandths.   *)
(***************************************************************************)
MaxVocabulary == 21
MaxPattern == 2

TopWords == 20

DefaultImgDir == "src/img"
RedirectedImgDir == "tests/output"
TextColumns == {"style_text", "verb_text"}

\* the vocabulary of n words for one pattern of importances and averages
Vocabulary(n, a, b) ==
    [i \in 1..n |-> [word |-> i,
                     importance |-> (i * 3 + a) % 7,
                     dog_avg |-> 4 * ((i * (a + 1) + b) % 9),
                     cat_avg |-> 4 * ((i * (b + 1) + a) % 7)]]

\* one insertion of the stable ascending sort of indices by importance
InsertIndex(sorted, i, features) ==
    LET ahead == Cardinality({k \in DOMAIN sorted :
                                 features[sorted[k]].importance <= features[i].importance})
    IN  SubSeq(sorted, 1, ahead) \o <<i>> \o SubSeq(sorted, ahead + 1, Len(sorted))

\* np.argsort(mean_importance) over the first n features
RECURSIVE ArgSort(_, _)
ArgSort(features, n) ==
    IF n = 0 THEN <<>> ELSE InsertIndex(ArgSort(features, n - 1), n, features)

\* np.argsort(mean_importance)[-20:]
TopIndices(features) ==
    LET order == ArgSort(features, Len(features))
    IN  SubSeq(order, IF Len(order) > TopWords THEN Len(order) - TopWords + 1 ELSE 1,
               Len(order))

\* round(x, 4) of a value given in hundred-thousandths, in ten-thousandths
Round4(x) == (x + 5) \div 10

\* word_score_list
WordScoreList(features) ==
    LET top == TopIndices(features)
    IN  [k \in DOMAIN top |->
            [word |-> features[top[k]].word,
             dog_score |-> Round4(features[top[k]].dog_avg),
             cat_score |-> Round4(features[top[k]].cat_avg),
             diff |-> Round4(features[top[k]].dog_avg - features[top[k]].cat_avg)]]

\* one insertion of the descending sort by diff
InsertByDiff(sorted, row) ==
    LET ahead == Cardinality({k \in DOMAIN sorted : sorted[k].diff >= row.diff})
    IN  SubSeq(sorted, 1, ahead) \o <<row>> \o SubSeq(sorted, ahead + 1, Len(sorted))

\* word_scores_df.sort_values(by="diff", ascending=False)
RECURSIVE SortValuesByDiff(_)
SortValuesByDiff(rows) ==
    IF rows = <<>> THEN <<>>
    ELSE InsertByDiff(SortValuesByDiff(SubSeq(rows, 1, Len(rows) - 1)), rows[Len(rows)])

\* a variant that writes the list in the order of top_indices
WordScoresUnsorted(features) == WordScoreList(features)

\* word_scores_df as written to the CSV file
WordScoresDf(features) == SortValuesByDiff(WordScoreList(features))

\* a variant that binds the directory when the module is imported
CsvSavePathAtImport(img_dir, text_col) ==
    [dir |-> DefaultImgDir, name |-> "top20_word_scores_" \o text_col \o ".csv"]

\* IMG_DIR / f"top20_word_scores_{text_col}.csv"
CsvSavePath(img_dir, text_col) ==
    [dir |-> img_dir, name |-> "top20_word_scores_" \o text_col \o ".csv"]

\* IMG_DIR / f"{column_name}_diverging_plot.png"
ImgSavePath(img_dir, column_name) ==
    [dir |-> img_dir, name |-> column_name \o "_diverging_plot.png"]

NoCall == [text_col |-> "", img_dir |-> ""]

InitStyle ==
    /\ style_features \in {Vocabulary(n, a, b) :
                              n \in 0..MaxVocabulary, a \in 0..MaxPattern, b \in 0..MaxPattern}
    /\ IMG_DIR = DefaultImgDir
    /\ style_call = NoCall
    /\ style_files = {}
    /\ style_csv = <<>>
    /\ style_pc = "imported"

IdleStyle ==
    /\ style_features = <<>>
    /\ IMG_DIR = DefaultImgDir
    /\ style_call = NoCall
    /\ style_files = {}
    /\ style_csv = <<>>
    /\ style_pc = "off"

OtherThanStyle == <<mergeVars, filterVars, labelVars, predictVars, moneyVars, cleanVars, gptVars, appVars, cliVars, trainVars, petVars, sweepVars, capVars, unifiedVars, prepareVars, featuresVars, assignVars, collectorVars, logsVars, driverVars, targetedVars>>

\* cat_vs_dog_module.IMG_DIR = OUTPUT_DIR
redirect_IMG_DIR ==
    /\ style_pc \in {"imported", "returned", "raised"}
    /\ IMG_DIR = DefaultImgDir
    /\ IMG_DIR' = RedirectedImgDir
    /\ UNCHANGED <<style_features, style_call, style_files, style_csv, style_pc,
                   OtherThanStyle>>

\* run_style_model(df, text_col, plot_title, diverging_title) returns
run_style_model ==
    /\ style_pc = "imported"
    /\ style_features # <<>>
    /\ \E text_col \in TextColumns :
          /\ style_call' = [text_col |-> text_col, img_dir |-> IMG_DIR]
          /\ style_files' = {CsvSavePath(IMG_DIR, text_col), ImgSavePath(IMG_DIR, text_col)}
    /\ style_csv' = WordScoresDf(style_features)
    /\ style_pc' = "returned"
    /\ UNCHANGED <<style_features, IMG_DIR, OtherThanStyle>>

\* run_style_model raises before it writes: fit_transform on an empty
\* vocabulary, or the folds cannot be built from the labels
run_style_model_raises ==
    /\ style_pc = "imported"
    /\ \E text_col \in TextColumns :
          style_call' = [text_col |-> text_col, img_dir |-> IMG_DIR]
    /\ style_pc' = "raised"
    /\ UNCHANGED <<style_features, IMG_DIR, style_files, style_csv, OtherThanStyle>>

NextStyle ==
    \/ redirect_IMG_DIR
    \/ run_style_model
    \/ run_style_model_raises

\* C16: when run_style_model on text column C has returned, the files
\* top20_word_scores_C.csv and C_diverging_plot.png are in the directory that
\* IMG_DIR named when it was called, redirected or not, and nowhere else; the
\* CSV holds at most 20 words, each once, in descending order of diff, and
\* diff is the rounded dog average minus cat average of the word.
C16_StyleOutputs ==
    style_pc = "returned" =>
        /\ style_files =
              {[dir |-> style_call.img_dir,
                name |-> IF style_call.text_col = "style_text"
                         THEN "top20_word_scores_style_text.csv"
                         ELSE "top20_word_scores_verb_text.csv"],
               [dir |-> style_call.img_dir,
                name |-> IF style_call.text_col = "style_text"
                         THEN "style_text_diverging_plot.png"
                         ELSE "verb_text_diverging_plot.png"]}
        /\ Len(style_csv) <= 20
        /\ Len(style_csv) >= 1
        /\ \A k, l \in DOMAIN style_csv :
              /\ k < l => style_csv[k].diff >= style_csv[l].diff
              /\ style_csv[k].word = style_csv[l].word => k = l
        /\ \A k \in DOMAIN style_csv :
              \E i \in DOMAIN style_features :
                 /\ style_features[i].word = style_csv[k].word
                 /\ 10 * style_csv[k].diff - 5
                       <= style_features[i].dog_avg - style_features[i].cat_avg
                 /\ style_features[i].dog_avg - style_features[i].cat_avg
                       < 10 * style_csv[k].diff + 5

\* a redirected run on a vocabulary of more than 20 words whose top words
\* differ in diff
C16_Witness ==
    /\ style_pc = "returned"
    /\ style_call.img_dir = RedirectedImgDir
    /\ Len(style_features) > 20
    /\ Len(style_csv) = 20
    /\ style_csv[1].diff > 0
    /\ style_csv[20].diff < 0
    /\ WordScoreList(style_features) # style_csv

(***************************************************************************)
(* Comment features: src/utils/data_preprocessing/preprocessing.py         *)
(* preprocess_comments and extract_features, for the columns computed by   *)
(* substring tests (the spaCy and VADER columns are left out).             *)
(***************************************************************************)
MaxFeatureFragments == 3

FeatureFragments == {<<"h", "t", "t", "p", ":", "/", "/", "a">>, <<"?">>, <<"S", "e", "e">>, <<" ">>}
FeatureBodies == {Some(t) : t \in TextsOf(FeatureFragments, MaxFeatureFragments)} \cup {None}

\* extract_features(row) on the row preprocess_comments passes: row["body"] is
\* the body column as it is when df.apply runs
ExtractFeatures(row) ==
    LET text == row.body
    IN  [cleaned_text |-> text,
         has_link |-> BoolToInt(Contains(row.body, KwHttp)),
         has_question |-> BoolToInt(Contains(row.body, <<"?">>))]

\* preprocess_comments(df) on one row: the body column is replaced by its
\* cleaned text, then the features are extracted and concatenated
PreprocessComment(body) ==
    LET cleaned == [body |-> CleanText(Str(body))]
        features == ExtractFeatures(cleaned)
    IN  [body |-> cleaned.body,
         cleaned_text |-> features.cleaned_text,
         has_link |-> features.has_link,
         has_question |-> features.has_question]

NoFeatures == [body |-> <<>>, cleaned_text |-> <<>>, has_link |-> 0, has_question |-> 0]

InitFeatures ==
    /\ feature_body \in FeatureBodies
    /\ feature_row = NoFeatures
    /\ feature_pc = "start"

IdleFeatures ==
    /\ feature_body = None
    /\ feature_row = NoFeatures
    /\ feature_pc = "off"

OtherThanFeatures == <<mergeVars, filterVars, labelVars, predictVars, moneyVars, cleanVars, gptVars, appVars, cliVars, trainVars, petVars, sweepVars, capVars, unifiedVars, prepareVars, styleVars, assignVars, collectorVars, logsVars, driverVars, targetedVars>>

\* preprocess_comments(df)
preprocess_comments ==
    /\ feature_pc = "start"
    /\ feature_row' = PreprocessComment(feature_body)
    /\ feature_pc' = "done"
    /\ UNCHANGED <<feature_body, OtherThanFeatures>>

NextFeatures == preprocess_comments

\* the body as read, before clean_text
OriginalBody == Str(feature_body)

\* C19: for a processed row has_link is 1 exactly when the original body
\* contains "http" and has_question is 1 exactly when the original body
\* contains "?".
C19_FlagsFromOriginalBody ==
    feature_pc = "done" =>
        /\ feature_row.has_link = 1 <=> Contains(OriginalBody, <<"h", "t", "t", "p">>)
        /\ feature_row.has_question = 1 <=> Contains(OriginalBody, <<"?">>)

\* what the flags are computed from
FlagsFromCleanedBody ==
    feature_pc = "done" =>
        /\ feature_row.has_link = 1 <=> Contains(feature_row.body, <<"h", "t", "t", "p">>)
        /\ feature_row.has_question = 1 <=> Contains(feature_row.body, <<"?">>)

(***************************************************************************)
(* Expanded resumable collector, species of a post:                        *)
(* src/utils/data-collection/data_v2.py, collect_pet_posts.  The search    *)
(* phase and the browse phase each give a post its post_pet_type from the  *)
(* pet_type of the sweep and the keywords of the post; random.choice is a  *)
(* choice between its two outcomes.  A text is a sequence of characters.   *)
(***************************************************************************)
cat_subreddits == <<<<"c", "a", "t", "s">>, <<"C", "a", "t", "A", "d", "v", "i", "c", "e">>, <<"k", "i", "t", "t", "e", "n", "s">>, <<"c", "a", "t", "p", "i", "c", "t", "u", "r", "e", "s">>, <<"c", "a", "t", "c", "a", "r", "e">>>>
dog_subreddits == <<<<"d", "o", "g", "s">>, <<"d", "o", "g", "p", "i", "c", "t", "u", "r", "e", "s">>, <<"d", "o", "g", "s", "w", "i", "t", "h", "j", "o", "b", "s">>, <<"d", "o", "g", "c", "a", "r", "e">>,
                    <<"d", "o", "g", "s", "_", "g", "e", "t", "t", "i", "n", "g", "_", "d", "o", "g", "s">>>>
location_subreddits ==
    <<<<"I", "n", "d", "i", "a", "n", "a", "p", "o", "l", "i", "s">>, <<"w", "a", "s", "h", "i", "n", "g", "t", "o", "n", "d", "c">>, <<"c", "h", "i", "c", "a", "g", "o">>, <<"n", "y", "c">>, <<"L", "o", "s", "A", "n", "g", "e", "l", "e", "s">>,
      <<"s", "a", "n", "f", "r", "a", "n", "c", "i", "s", "c", "o">>, <<"s", "e", "a", "t", "t", "l", "e">>, <<"p", "o", "r", "t", "l", "a", "n", "d">>, <<"a", "u", "s", "t", "i", "n">>, <<"b", "o", "s", "t", "o", "n">>, <<"a", "t", "l", "a", "n", "t", "a">>,
      <<"d", "a", "l", "l", "a", "s">>, <<"h", "o", "u", "s", "t", "o", "n">>, <<"p", "h", "o", "e", "n", "i", "x">>, <<"p", "h", "i", "l", "a", "d", "e", "l", "p", "h", "i", "a">>>>

cat_adoption_phrases ==
    <<<<"a", "d", "o", "p", "t", " ", "c", "a", "t">>, <<"c", "a", "t", " ", "a", "d", "o", "p", "t", "i", "o", "n">>, <<"a", "d", "o", "p", "t", " ", "a", " ", "c", "a", "t">>, <<"a", "d", "o", "p", "t", "i", "n", "g", " ", "c", "a", "t">>,
      <<"a", "d", "o", "p", "t", " ", "k", "i", "t", "t", "e", "n">>, <<"k", "i", "t", "t", "e", "n", " ", "a", "d", "o", "p", "t", "i", "o", "n">>, <<"r", "e", "s", "c", "u", "e", " ", "c", "a", "t">>, <<"c", "a", "t", " ", "r", "e", "s", "c", "u", "e">>,
      <<"r", "e", "h", "o", "m", "e", " ", "c", "a", "t">>, <<"c", "a", "t", " ", "n", "e", "e", "d", "s", " ", "h", "o", "m", "e">>, <<"f", "o", "s", "t", "e", "r", " ", "c", "a", "t">>, <<"c", "a", "t", " ", "f", "o", "s", "t", "e", "r", "i", "n", "g">>,
      <<"s", "h", "e", "l", "t", "e", "r", " ", "c", "a", "t">>, <<"c", "a", "t", " ", "s", "h", "e", "l", "t", "e", "r">>, <<"f", "o", "r", "e", "v", "e", "r", " ", "h", "o", "m", "e", " ", "c", "a", "t">>,
      <<"c", "a", "t", " ", "l", "o", "o", "k", "i", "n", "g", " ", "f", "o", "r", " ", "h", "o", "m", "e">>, <<"c", "a", "t", " ", "a", "v", "a", "i", "l", "a", "b", "l", "e", " ", "f", "o", "r", " ", "a", "d", "o", "p", "t", "i", "o", "n">>>>

dog_adoption_phrases ==
    <<<<"a", "d", "o", "p", "t", " ", "d", "o", "g">>, <<"d", "o", "g", " ", "a", "d", "o", "p", "t", "i", "o", "n">>, <<"a", "d", "o", "p", "t", " ", "a", " ", "d", "o", "g">>, <<"a", "d", "o", "p", "t", "i", "n", "g", " ", "d", "o", "g">>,
      <<"a", "d", "o", "p", "t", " ", "p", "u", "p", "p", "y">>, <<"p", "u", "p", "p", "y", " ", "a", "d", "o", "p", "t", "i", "o", "n">>, <<"r", "e", "s", "c", "u", "e", " ", "d", "o", "g">>, <<"d", "o", "g", " ", "r", "e", "s", "c", "u", "e">>,
      <<"r", "e", "h", "o", "m", "e", " ", "d", "o", "g">>, <<"d", "o", "g", " ", "n", "e", "e", "d", "s", " ", "h", "o", "m", "e">>, <<"f", "o", "s", "t", "e", "r", " ", "d", "o", "g">>, <<"d", "o", "g", " ", "f", "o", "s", "t", "e", "r", "i", "n", "g">>,
      <<"s", "h", "e", "l", "t", "e", "r", " ", "d", "o", "g">>, <<"d", "o", "g", " ", "s", "h", "e", "l", "t", "e", "r">>, <<"f", "o", "r", "e", "v", "e", "r", " ", "h", "o", "m", "e", " ", "d", "o", "g">>,
      <<"d", "o", "g", " ", "l", "o", "o", "k", "i", "n", "g", " ", "f", "o", "r", " ", "h", "o", "m", "e">>, <<"d", "o", "g", " ", "a", "v", "a", "i", "l", "a", "b", "l", "e", " ", "f", "o", "r", " ", "a", "d", "o", "p", "t", "i", "o", "n">>,
      <<"G", "r", "e", "a", "t", " ", "D", "o", "g", " ", "N", "e", "e", "d", "s", " ", "A", " ", "H", "o", "m", "e">>>>

general_adoption_phrases ==
    <<<<"a", "d", "o", "p", "t">>, <<"a", "d", "o", "p", "t", "i", "o", "n">>, <<"a", "d", "o", "p", "t", "e", "d">>, <<"a", "d", "o", "p", "t", "i", "n", "g">>, <<"r", "e", "h", "o", "m", "e">>, <<"r", "e", "-", "h", "o", "m", "e">>,
      <<"r", "e", "s", "c", "u", "e">>, <<"r", "e", "s", "c", "u", "e", "d">>, <<"f", "o", "s", "t", "e", "r">>, <<"f", "o", "r", "e", "v", "e", "r", " ", "h", "o", "m", "e">>, <<"s", "h", "e", "l", "t", "e", "r">>,
      <<"l", "o", "o", "k", "i", "n", "g", " ", "f", "o", "r", " ", "h", "o", "m", "e">>, <<"n", "e", "e", "d", "s", " ", "h", "o", "m", "e">>, <<"n", "e", "w", " ", "h", "o", "m", "e">>, <<"F", "o", "r", " ", "a", "d", "o", "p", "t", "i", "o", "n">>,
      <<"N", "e", "e", "d", " ", "h", "o", "m", "e", "s">>, <<"I", "n", " ", "n", "e", "e", "d", " ", "o", "f", " ", "r", "e", "h", "o", "m", "i", "n", "g">>, <<"a", "v", "a", "i", "l", "a", "b", "l", "e">>, <<"s", "e", "e", "k", "i", "n", "g">>>>

\* cat_keywords and dog_keywords of data_v2.py
cat_keywords_v2 ==
    <<<<"c", "a", "t">>, <<"c", "a", "t", "s">>, <<"k", "i", "t", "t", "e", "n">>, <<"k", "i", "t", "t", "e", "n", "s">>, <<"k", "i", "t", "t", "y">>, <<"f", "e", "l", "i", "n", "e">>, <<"t", "a", "b", "b", "y">>,
      <<"c", "a", "l", "i", "c", "o">>, <<"s", "i", "a", "m", "e", "s", "e">>, <<"p", "e", "r", "s", "i", "a", "n">>, <<"s", "h", "e", "-", "c", "a", "t">>, <<"t", "o", "m", "c", "a", "t">>, <<"m", "e", "o", "w">>>>
dog_keywords_v2 ==
    <<<<"d", "o", "g">>, <<"d", "o", "g", "s">>, <<"p", "u", "p", "p", "y">>, <<"p", "u", "p", "p", "i", "e", "s">>, <<"p", "u", "p">>, <<"p", "o", "o", "c", "h">>, <<"c", "a", "n", "i", "n", "e">>, <<"h", "o", "u", "n", "d">>,
      <<"r", "e", "t", "r", "i", "e", "v", "e", "r">>, <<"s", "h", "e", "p", "h", "e", "r", "d">>, <<"t", "e", "r", "r", "i", "e", "r">>, <<"l", "a", "b", "r", "a", "d", "o", "r">>, <<"b", "e", "a", "g", "l", "e">>, <<"c", "o", "l", "l", "i", "e">>,
      <<"p", "o", "o", "d", "l", "e">>, <<"b", "a", "r", "k">>, <<"w", "o", "o", "f">>>>

\* any(item in text for item in items)
AnyIn(items, text) == \E k \in DOMAIN items : Contains(text, items[k])

is_cat_related(text) == AnyIn(cat_keywords_v2, Lower(text))
is_dog_related(text) == AnyIn(dog_keywords_v2, Lower(text))

\* pet_type is "cat", "dog" or "none" (the default None)
is_adoption_related(text, pet_type) ==
    \/ pet_type = "cat" /\ AnyIn(cat_adoption_phrases, Lower(text))
    \/ pet_type = "dog" /\ AnyIn(dog_adoption_phrases, Lower(text))
    \/ AnyIn(general_adoption_phrases, Lower(text))

\* the phrases collect_pet_posts searches for
search_phrases(pet_type) ==
    CASE pet_type = "cat" -> cat_adoption_phrases \o general_adoption_phrases
      [] pet_type = "dog" -> dog_adoption_phrases \o general_adoption_phrases
      [] OTHER -> cat_adoption_phrases \o dog_adoption_phrases
                     \o general_adoption_phrases

\* post_pet_type of a post with both kinds of keywords in a mixed sweep,
\* search phase: the values the assignment can give
AmbiguousBySearchPhrase(phrase) ==
    IF AnyIn(cat_adoption_phrases, Lower(phrase)) THEN {Some("cat")}
    ELSE IF AnyIn(dog_adoption_phrases, Lower(phrase)) THEN {Some("dog")}
    ELSE {Some("cat"), Some("dog")}

\* the same in the browse phase, from the name of the community
AmbiguousBySubreddit(subreddit_name) ==
    IF AnyIn(<<<<"c", "a", "t">>, <<"k", "i", "t", "t", "e", "n">>>>, Lower(subreddit_name)) THEN {Some("cat")}
    ELSE IF AnyIn(<<<<"d", "o", "g">>, <<"p", "u", "p", "p", "y">>>>, Lower(subreddit_name)) THEN {Some("dog")}
    ELSE {Some("cat"), Some("dog")}

\* the values post_pet_type can have once it is determined; ambiguous is the
\* set of values of the mixed-content branch
PostPetType(pet_type, full_text, ambiguous) ==
    LET is_related_to_cats == is_cat_related(full_text)
        is_related_to_dogs == is_dog_related(full_text)
    IN  CASE pet_type = "cat" ->
               IF is_related_to_cats THEN {Some("cat")} ELSE {None}
          [] pet_type = "dog" ->
               IF is_related_to_dogs THEN {Some("dog")} ELSE {None}
          [] OTHER ->
               IF is_related_to_cats /\ ~is_related_to_dogs THEN {Some("cat")}
               ELSE IF is_related_to_dogs /\ ~is_related_to_cats
                    THEN {Some("dog")}
               ELSE IF is_related_to_cats /\ is_related_to_dogs THEN ambiguous
               ELSE {None}

SearchPetType(pet_type, phrase, full_text) ==
    PostPetType(pet_type, full_text, AmbiguousBySearchPhrase(phrase))

BrowsePetType(pet_type, subreddit_name, full_text) ==
    PostPetType(pet_type, full_text, AmbiguousBySubreddit(subreddit_name))

\* the sweeps of the main script: every community with the pet_type passed
Sweeps ==
    {[sub |-> cat_subreddits[k], pet_type |-> "cat"] : k \in DOMAIN cat_subreddits}
    \cup {[sub |-> dog_subreddits[k], pet_type |-> "dog"] : k \in DOMAIN dog_subreddits}
    \cup {[sub |-> location_subreddits[k], pet_type |-> "both"] :
             k \in DOMAIN location_subreddits}

\* title and selftext of the posts met, joined
FullTexts == {<<"a", "d", "o", "p", "t", " ", "c", "a", "t", " ", "o", "r", " ", "d", "o", "g">>, <<"A", "d", "o", "p", "t", " ", "a", " ", "c", "a", "t">>, <<"r", "e", "s", "c", "u", "e", " ", "d", "o", "g">>, <<"m", "y", " ", "c", "a", "t">>,
              <<"n", "e", "w", " ", "h", "o", "m", "e">>}

InitAssign ==
    /\ \E s \in Sweeps : assign_sub = s.sub /\ assign_pet_type = s.pet_type
    /\ assign_phase \in {"search", "browse"}
    /\ IF assign_phase = "search"
       THEN assign_phrase \in {Some(p) : p \in Items(search_phrases(assign_pet_type))}
       ELSE assign_phrase = None
    /\ assign_text \in FullTexts
    /\ assign_post_pet_type = None
    /\ assign_pc = "post"

IdleAssign ==
    /\ assign_sub = <<>>
    /\ assign_pet_type = ""
    /\ assign_phase = ""
    /\ assign_phrase = None
    /\ assign_text = <<>>
    /\ assign_post_pet_type = None
    /\ assign_pc = "off"

OtherThanAssign == <<mergeVars, filterVars, labelVars, predictVars, moneyVars, cleanVars, gptVars, appVars, cliVars, trainVars, petVars, sweepVars, capVars, unifiedVars, prepareVars, styleVars, featuresVars, collectorVars, logsVars, driverVars, targetedVars>>

\* a post of a search listing gets its post_pet_type
search_post_typed ==
    /\ assign_pc = "post"
    /\ assign_phase = "search"
    /\ assign_post_pet_type' \in
           SearchPetType(assign_pet_type, assign_phrase[1], assign_text)
    /\ assign_pc' = "typed"
    /\ UNCHANGED <<assign_sub, assign_pet_type, assign_phase, assign_phrase,
                   assign_text, OtherThanAssign>>

\* a post of a browse listing gets its post_pet_type
browse_post_typed ==
    /\ assign_pc = "post"
    /\ assign_phase = "browse"
    /\ assign_post_pet_type' \in
           BrowsePetType(assign_pet_type, assign_sub, assign_text)
    /\ assign_pc' = "typed"
    /\ UNCHANGED <<assign_sub, assign_pet_type, assign_phase, assign_phrase,
                   assign_text, OtherThanAssign>>

NextAssign ==
    \/ search_post_typed
    \/ browse_post_typed

\* the species a list of phrases stands for, and the species a community
\* name indicates
PhraseSpecies(phrase) ==
    IF phrase \in Items(cat_adoption_phrases) THEN Some("cat")
    ELSE IF phrase \in Items(dog_adoption_phrases) THEN Some("dog")
    ELSE None

NameSpecies(name) ==
    IF Contains(Lower(name), <<"c", "a", "t">>) \/ Contains(Lower(name), <<"k", "i", "t", "t", "e", "n">>)
    THEN Some("cat")
    ELSE IF Contains(Lower(name), <<"d", "o", "g">>) \/ Contains(Lower(name), <<"p", "u", "p", "p", "y">>)
    THEN Some("dog")
    ELSE None

MatchesBoth(text) ==
    /\ \E k \in DOMAIN cat_keywords_v2 : Contains(Lower(text), cat_keywords_v2[k])
    /\ \E k \in DOMAIN dog_keywords_v2 : Contains(Lower(text), dog_keywords_v2[k])

\* C22: in a mixed sweep a post that matches both cat and dog keywords gets
\* the species of the search phrase when it was found through a phrase of the
\* cat-specific or dog-specific list, otherwise the species the community
\* name indicates, and either species only when neither indicates one.
C22_PhraseThenNameThenRandom ==
    (assign_pc = "typed" /\ assign_pet_type = "both" /\ MatchesBoth(assign_text)) =>
        LET by_phrase == IF assign_phrase = None THEN None
                         ELSE PhraseSpecies(assign_phrase[1])
            by_name == NameSpecies(assign_sub)
        IN  /\ assign_post_pet_type \in {Some("cat"), Some("dog")}
            /\ by_phrase # None => assign_post_pet_type = by_phrase
            /\ (by_phrase = None /\ by_name # None) => assign_post_pet_type = by_name

\* what does hold: a lower-case phrase of either list decides the species
PhraseDecidesWhenLowerCase ==
    (assign_pc = "typed" /\ assign_pet_type = "both" /\ MatchesBoth(assign_text)
        /\ assign_phrase # None /\ PhraseSpecies(assign_phrase[1]) # None
        /\ Lower(assign_phrase[1]) = assign_phrase[1]) =>
        assign_post_pet_type = PhraseSpecies(assign_phrase[1])

(***************************************************************************)
(* Expanded resumable collector, targets, checkpoints and post ids:        *)
(* src/utils/data-collection/data_v2.py.  The module loads the saved files, *)
(* then the main script calls collect_pet_posts for one community after    *)
(* another.  The saved files hold the posts listed here by id and `more`    *)
(* posts that no listing of the run returns; such posts are only counted.  *)
(* A phrase that finds no post changes nothing, so the position in         *)
(* search_phrases is not part of the state.  Comments and the handlers of  *)
(* an interrupted run are the subject of the sweep component above.        *)
(***************************************************************************)
target_cat_posts == 5000
target_dog_posts == 5000
save_interval == 500

\* a value of the post_id column: text, or a number when pandas read the
\* column as integers
StrId(id) == [type |-> "str", value |-> id]

RECURSIVE DropLeadingZeros(_)
DropLeadingZeros(id) ==
    IF Len(id) > 1 /\ Head(id) = "0" THEN DropLeadingZeros(Tail(id)) ELSE id

IntId(id) == [type |-> "int", value |-> DropLeadingZeros(id)]

AllDigits(id) == id # <<>> /\ \A k \in DOMAIN id : id[k] \in Digits

\* pd.read_csv(...).to_dict("records"), the post_id of each record: a column
\* in which every field is a decimal number is read as integers
ReadCsvPostIds(column) ==
    IF column # <<>> /\ \A k \in DOMAIN column : AllDigits(column[k])
    THEN [k \in DOMAIN column |-> IntId(column[k])]
    ELSE [k \in DOMAIN column |-> StrId(column[k])]

\* data/cat_posts.csv and data/dog_posts.csv when the module is loaded
SavedFiles ==
    [cat : [more : {0, 1498, 2600, 4999}, post_ids : {<<>>, <<<<"a", "1">>>>, <<<<"7", "7">>>>}],
     dog : [more : {0, 4999}, post_ids : {<<>>, <<<<"b", "2">>>>}]]

\* the posts the listings of the run return
Listed == {[id |-> <<"a", "1">>, full_text |-> <<"A", "d", "o", "p", "t", " ", "a", " ", "c", "a", "t">>],
           [id |-> <<"7", "7">>, full_text |-> <<"c", "a", "t", " ", "r", "e", "s", "c", "u", "e">>],
           [id |-> <<"b", "2">>, full_text |-> <<"r", "e", "s", "c", "u", "e", " ", "d", "o", "g">>],
           [id |-> <<"c", "3">>, full_text |-> <<"a", "d", "o", "p", "t", " ", "c", "a", "t", " ", "o", "r", " ", "d", "o", "g">>],
           [id |-> <<"d", "4">>, full_text |-> <<"m", "y", " ", "c", "a", "t">>]}

\* the phrases whose search returns posts
PhrasesTried == {<<"a", "d", "o", "p", "t", " ", "c", "a", "t">>, <<"G", "r", "e", "a", "t", " ", "D", "o", "g", " ", "N", "e", "e", "d", "s", " ", "A", " ", "H", "o", "m", "e">>, <<"r", "e", "s", "c", "u", "e">>}

\* one community of each of the three lists, in the order of the main script
CollectorPlan == <<[sub |-> cat_subreddits[1], pet_type |-> "cat"],
                   [sub |-> dog_subreddits[1], pet_type |-> "dog"],
                   [sub |-> location_subreddits[3], pet_type |-> "both"]>>

sort_methods == <<"new", "hot", "top">>

\* next_cat_save / next_dog_save when the module is loaded
NextSaveAtLoad(posts_count) ==
    IF posts_count >= 1500 THEN 1500 + save_interval ELSE 1500

\* len(cat_posts), len(dog_posts)
LenPosts(more, posts) == more + Len(posts)

InitCollector ==
    /\ saved_files \in SavedFiles
    /\ cat_posts = ReadCsvPostIds(saved_files.cat.post_ids)
    /\ dog_posts = ReadCsvPostIds(saved_files.dog.post_ids)
    /\ cat_posts_count = LenPosts(saved_files.cat.more, cat_posts)
    /\ dog_posts_count = LenPosts(saved_files.dog.more, dog_posts)
    /\ next_cat_save = NextSaveAtLoad(cat_posts_count)
    /\ next_dog_save = NextSaveAtLoad(dog_posts_count)
    /\ new_cat_posts = <<>>
    /\ new_dog_posts = <<>>
    /\ collected_post_ids = {}
    /\ collector_sub = 1
    /\ collector_pc = "main"
    /\ collector_phrase = None
    /\ collector_sort = 0
    /\ guard_breaks = {}
    /\ temp_files = <<>>
    /\ final_files = None

IdleCollector ==
    /\ saved_files = None
    /\ cat_posts = <<>>
    /\ dog_posts = <<>>
    /\ cat_posts_count = 0
    /\ dog_posts_count = 0
    /\ next_cat_save = 0
    /\ next_dog_save = 0
    /\ new_cat_posts = <<>>
    /\ new_dog_posts = <<>>
    /\ collected_post_ids = {}
    /\ collector_sub = 0
    /\ collector_pc = "off"
    /\ collector_phrase = None
    /\ collector_sort = 0
    /\ guard_breaks = {}
    /\ temp_files = <<>>
    /\ final_files = None

OtherThanCollector == <<mergeVars, filterVars, labelVars, predictVars, moneyVars, cleanVars, gptVars, appVars, cliVars, trainVars, petVars, sweepVars, capVars, unifiedVars, prepareVars, styleVars, featuresVars, assignVars, logsVars, driverVars, targetedVars>>

pet_type == CollectorPlan[collector_sub].pet_type
subreddit_name == CollectorPlan[collector_sub].sub

\* the guard at the head of each of the three loops of the main script
MainTargetReached ==
    CASE pet_type = "cat" -> cat_posts_count >= target_cat_posts
      [] pet_type = "dog" -> dog_posts_count >= target_dog_posts
      [] OTHER -> /\ cat_posts_count >= target_cat_posts
                  /\ dog_posts_count >= target_dog_posts

\* the main loop leaves the list of communities: its target is reached
main_target_break ==
    /\ collector_pc = "main"
    /\ collector_sub <= Len(CollectorPlan)
    /\ MainTargetReached
    /\ collector_sub' = collector_sub + 1
    /\ UNCHANGED <<saved_files, cat_posts, dog_posts, cat_posts_count,
                   dog_posts_count, next_cat_save, next_dog_save, new_cat_posts,
                   new_dog_posts, collected_post_ids, collector_pc,
                   collector_phrase, collector_sort, guard_breaks, temp_files,
                   final_files, OtherThanCollector>>

\* the main loop calls collect_pet_posts(sub, pet_type)
collect_pet_posts_begins ==
    /\ collector_pc = "main"
    /\ collector_sub <= Len(CollectorPlan)
    /\ ~MainTargetReached
    /\ new_cat_posts' = <<>>
    /\ new_dog_posts' = <<>>
    /\ collected_post_ids' = Items(cat_posts) \cup Items(dog_posts)
    /\ guard_breaks' = {}
    /\ collector_pc' = "search"
    /\ UNCHANGED <<saved_files, cat_posts, dog_posts, cat_posts_count,
                   dog_posts_count, next_cat_save, next_dog_save, collector_sub,
                   collector_phrase, collector_sort, temp_files, final_files,
                   OtherThanCollector>>

\* the two tests at the head of the phrase loop and of the sort loop
LoopTargetReached ==
    \/ /\ pet_type \in {"cat", "both"}
       /\ cat_posts_count + Len(new_cat_posts) >= target_cat_posts
    \/ /\ pet_type \in {"dog", "both"}
       /\ dog_posts_count + Len(new_dog_posts) >= target_dog_posts

\* the phrase loop is left at its head: a target test holds
phrase_loop_break ==
    /\ collector_pc = "search"
    /\ LoopTargetReached
    /\ guard_breaks' = guard_breaks \cup {"search"}
    /\ collector_pc' = "browse"
    /\ collector_sort' = 1
    /\ UNCHANGED <<saved_files, cat_posts, dog_posts, cat_posts_count,
                   dog_posts_count, next_cat_save, next_dog_save, new_cat_posts,
                   new_dog_posts, collected_post_ids, collector_sub,
                   collector_phrase, temp_files, final_files, OtherThanCollector>>

\* subreddit.search(phrase) for the next phrase
search_begins ==
    /\ collector_pc = "search"
    /\ ~LoopTargetReached
    /\ collector_phrase' \in
           {Some(p) : p \in PhrasesTried \cap Items(search_phrases(pet_type))}
    /\ collector_pc' = "searching"
    /\ UNCHANGED <<saved_files, cat_posts, dog_posts, cat_posts_count,
                   dog_posts_count, next_cat_save, next_dog_save, new_cat_posts,
                   new_dog_posts, collected_post_ids, collector_sub,
                   collector_sort, guard_breaks, temp_files, final_files,
                   OtherThanCollector>>

\* the phrase loop has gone through search_phrases
phrases_done ==
    /\ collector_pc = "search"
    /\ collector_phrase' = None
    /\ collector_pc' = "browse"
    /\ collector_sort' = 1
    /\ UNCHANGED <<saved_files, cat_posts, dog_posts, cat_posts_count,
                   dog_posts_count, next_cat_save, next_dog_save, new_cat_posts,
                   new_dog_posts, collected_post_ids, collector_sub, guard_breaks,
                   temp_files, final_files, OtherThanCollector>>

\* the three tests after a post: the post loop is left
PostLoopBreak(new_cats, new_dogs) ==
    LET cats_reached == cat_posts_count + Len(new_cats) >= target_cat_posts
        dogs_reached == dog_posts_count + Len(new_dogs) >= target_dog_posts
    IN  \/ cats_reached /\ dogs_reached
        \/ pet_type = "cat" /\ cats_reached
        \/ pet_type = "dog" /\ dogs_reached

\* the incremental file written when the count has reached the next save
IncrementalFile(species, count) == [species |-> species, posts |-> count]

\* a post is skipped by a continue statement
PostSkipped ==
    UNCHANGED <<new_cat_posts, new_dog_posts, collected_post_ids, next_cat_save,
                next_dog_save, temp_files, collector_pc>>

\* the rest of the loop body for a post whose post_pet_type is determined:
\* the post is stored when accept holds, an incremental file is written when
\* due, and the target tests end the listing (pc at_head) or not
PostTyped(post, post_pet_type, accept, at_head) ==
    LET id == StrId(post.id)
        new_cats == IF accept /\ post_pet_type = Some("cat")
                    THEN Append(new_cat_posts, id) ELSE new_cat_posts
        new_dogs == IF accept /\ post_pet_type = Some("dog")
                    THEN Append(new_dog_posts, id) ELSE new_dog_posts
        cat_total == cat_posts_count + Len(new_cats)
        dog_total == dog_posts_count + Len(new_dogs)
        cat_save == accept /\ post_pet_type = Some("cat") /\ cat_total >= next_cat_save
        dog_save == accept /\ post_pet_type = Some("dog") /\ dog_total >= next_dog_save
    IN  /\ new_cat_posts' = new_cats
        /\ new_dog_posts' = new_dogs
        /\ collected_post_ids' =
               IF accept THEN collected_post_ids \cup {id} ELSE collected_post_ids
        /\ temp_files' =
               IF cat_save THEN Append(temp_files, IncrementalFile("cat", cat_total))
               ELSE IF dog_save
                    THEN Append(temp_files, IncrementalFile("dog", dog_total))
               ELSE temp_files
        /\ next_cat_save' = IF cat_save THEN next_cat_save + save_interval
                            ELSE next_cat_save
        /\ next_dog_save' = IF dog_save THEN next_dog_save + save_interval
                            ELSE next_dog_save
        /\ collector_pc' = IF PostLoopBreak(new_cats, new_dogs) THEN at_head
                           ELSE collector_pc

\* one post of the search listing: the body of the post loop
search_post ==
    /\ collector_pc = "searching"
    /\ \E post \in Listed :
          IF StrId(post.id) \in collected_post_ids
             \/ ~(is_cat_related(post.full_text) \/ is_dog_related(post.full_text))
          THEN PostSkipped
          ELSE \E post_pet_type \in SearchPetType(pet_type, collector_phrase[1],
                                                  post.full_text) :
                  PostTyped(post, post_pet_type,
                            /\ post_pet_type # None
                            /\ is_adoption_related(post.full_text, post_pet_type[1]),
                            "search")
    /\ UNCHANGED <<saved_files, cat_posts, dog_posts, cat_posts_count,
                   dog_posts_count, collector_sub, collector_phrase,
                   collector_sort, guard_breaks, final_files, OtherThanCollector>>

\* the search listing ends, or raises and the handler continues with the
\* next phrase
search_ends ==
    /\ collector_pc = "searching"
    /\ collector_pc' = "search"
    /\ UNCHANGED <<saved_files, cat_posts, dog_posts, cat_posts_count,
                   dog_posts_count, next_cat_save, next_dog_save, new_cat_posts,
                   new_dog_posts, collected_post_ids, collector_sub,
                   collector_phrase, collector_sort, guard_breaks, temp_files,
                   final_files, OtherThanCollector>>

\* the sort loop is left at its head: a target test holds
sort_loop_break ==
    /\ collector_pc = "browse"
    /\ collector_sort <= Len(sort_methods)
    /\ LoopTargetReached
    /\ guard_breaks' = guard_breaks \cup {"browse"}
    /\ collector_pc' = "finished"
    /\ UNCHANGED <<saved_files, cat_posts, dog_posts, cat_posts_count,
                   dog_posts_count, next_cat_save, next_dog_save, new_cat_posts,
                   new_dog_posts, collected_post_ids, collector_sub,
                   collector_phrase, collector_sort, temp_files, final_files,
                   OtherThanCollector>>

\* subreddit.new / hot / top for the next sort method
browse_begins ==
    /\ collector_pc = "browse"
    /\ collector_sort <= Len(sort_methods)
    /\ ~LoopTargetReached
    /\ collector_pc' = "browsing"
    /\ UNCHANGED <<saved_files, cat_posts, dog_posts, cat_posts_count,
                   dog_posts_count, next_cat_save, next_dog_save, new_cat_posts,
                   new_dog_posts, collected_post_ids, collector_sub,
                   collector_phrase, collector_sort, guard_breaks, temp_files,
                   final_files, OtherThanCollector>>

\* one post of the browse listing: the body of the post loop
browse_post ==
    /\ collector_pc = "browsing"
    /\ \E post \in Listed :
          IF \/ StrId(post.id) \in collected_post_ids
             \/ ~is_adoption_related(post.full_text,
                                     IF pet_type = "both" THEN "none" ELSE pet_type)
             \/ ~(is_cat_related(post.full_text) \/ is_dog_related(post.full_text))
          THEN PostSkipped
          ELSE \E post_pet_type \in BrowsePetType(pet_type, subreddit_name,
                                                  post.full_text) :
                  PostTyped(post, post_pet_type, post_pet_type # None, "browse")
    /\ collector_sort' = IF collector_pc' = "browse" THEN collector_sort + 1
                         ELSE collector_sort
    /\ UNCHANGED <<saved_files, cat_posts, dog_posts, cat_posts_count,
                   dog_posts_count, collector_sub, collector_phrase, guard_breaks,
                   final_files, OtherThanCollector>>

\* the browse listing ends, or raises and the handler continues with the
\* next sort method
browse_ends ==
    /\ collector_pc = "browsing"
    /\ collector_pc' = "browse"
    /\ collector_sort' = collector_sort + 1
    /\ UNCHANGED <<saved_files, cat_posts, dog_posts, cat_posts_count,
                   dog_posts_count, next_cat_save, next_dog_save, new_cat_posts,
                   new_dog_posts, collected_post_ids, collector_sub,
                   collector_phrase, guard_breaks, temp_files, final_files,
                   OtherThanCollector>>

\* the sort loop has gone through the three sort methods
sorts_done ==
    /\ collector_pc = "browse"
    /\ collector_sort > Len(sort_methods)
    /\ collector_pc' = "finished"
    /\ UNCHANGED <<saved_files, cat_posts, dog_posts, cat_posts_count,
                   dog_posts_count, next_cat_save, next_dog_save, new_cat_posts,
                   new_dog_posts, collected_post_ids, collector_sub,
                   collector_phrase, collector_sort, guard_breaks, temp_files,
                   final_files, OtherThanCollector>>

\* the files written after a community that brought new posts
AfterFile(sub) == [after |-> sub]

\* collect_pet_posts returns; the main loop extends the lists, counts them
\* and writes the files tagged with the community
collect_pet_posts_ends ==
    /\ collector_pc = "finished"
    /\ cat_posts' = cat_posts \o new_cat_posts
    /\ dog_posts' = dog_posts \o new_dog_posts
    /\ cat_posts_count' = LenPosts(saved_files.cat.more, cat_posts')
    /\ dog_posts_count' = LenPosts(saved_files.dog.more, dog_posts')
    /\ temp_files' = IF new_cat_posts # <<>> \/ new_dog_posts # <<>>
                     THEN Append(temp_files, AfterFile(subreddit_name))
                     ELSE temp_files
    /\ new_cat_posts' = <<>>
    /\ new_dog_posts' = <<>>
    /\ collector_sub' = collector_sub + 1
    /\ collector_sort' = 0
    /\ collector_phrase' = None
    /\ collector_pc' = "main"
    /\ UNCHANGED <<saved_files, next_cat_save, next_dog_save, collected_post_ids,
                   guard_breaks, final_files, OtherThanCollector>>

\* Step 8: the final files
FinalFiles(cats, dogs) ==
    [cat_posts |-> cats, dog_posts |-> dogs, all_pet_posts |-> cats \o dogs]

save_final_files ==
    /\ collector_pc = "main"
    /\ collector_sub > Len(CollectorPlan)
    /\ final_files' = Some(FinalFiles(cat_posts, dog_posts))
    /\ collector_pc' = "done"
    /\ UNCHANGED <<saved_files, cat_posts, dog_posts, cat_posts_count,
                   dog_posts_count, next_cat_save, next_dog_save, new_cat_posts,
                   new_dog_posts, collected_post_ids, collector_sub,
                   collector_phrase, collector_sort, guard_breaks, temp_files,
                   OtherThanCollector>>

NextCollector ==
    \/ main_target_break
    \/ collect_pet_posts_begins
    \/ phrase_loop_break
    \/ search_begins
    \/ phrases_done
    \/ search_post
    \/ search_ends
    \/ sort_loop_break
    \/ browse_begins
    \/ browse_post
    \/ browse_ends
    \/ sorts_done
    \/ collect_pet_posts_ends
    \/ save_final_files

\* the posts a species had when the run started
SavedCount(species) ==
    saved_files[species].more + Len(saved_files[species].post_ids)

\* the incremental files of a species, in the order they were written
IncrementalSaves(species) ==
    SelectSeq(temp_files,
              LAMBDA f : "species" \in DOMAIN f /\ f.species = species)

\* C21: for each species the first incremental checkpoint of a run is
\* written at 1,500 accumulated posts or more, and two successive incremental
\* checkpoints are at least 500 accumulated posts apart, in a fresh run and
\* in a run resumed from any number of saved posts.
C21_CheckpointCadence ==
    \A species \in {"cat", "dog"} :
        LET saves == IncrementalSaves(species)
        IN  /\ saves # <<>> => saves[1].posts >= 1500
            /\ \A k \in 1..(Len(saves) - 1) :
                   saves[k + 1].posts - saves[k].posts >= 500

\* what does hold: the first incremental checkpoint is never written below
\* 1,500 posts
FirstCheckpointFrom1500 ==
    \A species \in {"cat", "dog"} :
        LET saves == IncrementalSaves(species)
        IN  saves # <<>> => saves[1].posts >= 1500

\* C25: in a run that starts with fewer than 5,000 posts of a species, the
\* accumulated number of posts of that species never exceeds 5,000, in the
\* species-specific sweeps and in the mixed location sweeps.
C25_NeverAboveTarget ==
    /\ SavedCount("cat") < 5000 =>
           cat_posts_count + Len(new_cat_posts) <= 5000
    /\ SavedCount("dog") < 5000 =>
           dog_posts_count + Len(new_dog_posts) <= 5000

\* what does hold: a species-specific sweep stops at the target of its species
SpeciesSweepStopsAtTarget ==
    (collector_pc \in {"search", "searching", "browse", "browsing", "finished"}
        /\ pet_type # "both") =>
        /\ (pet_type = "cat" /\ SavedCount("cat") < 5000) =>
               cat_posts_count + Len(new_cat_posts) <= 5000
        /\ (pet_type = "dog" /\ SavedCount("dog") < 5000) =>
               dog_posts_count + Len(new_dog_posts) <= 5000

\* the post ids of the two accumulators, as they are written to a file
AccumulatedIds ==
    LET rows == cat_posts \o new_cat_posts \o dog_posts \o new_dog_posts
    IN  [k \in DOMAIN rows |-> rows[k].value]

\* C27: when the saved files hold distinct post ids, the post ids of the cat
\* and dog accumulators together are pairwise distinct at every point of the
\* run (a post loaded from a previous run or accepted earlier is not accepted
\* again), and every loaded post is in the final outputs.
C27_ResumeWithoutDuplicates ==
    /\ \A i, j \in DOMAIN AccumulatedIds :
           i # j => AccumulatedIds[i] # AccumulatedIds[j]
    /\ final_files # None =>
           /\ \A k \in DOMAIN saved_files.cat.post_ids :
                  \E r \in Items(final_files[1].cat_posts) :
                      r.value = saved_files.cat.post_ids[k]
           /\ \A k \in DOMAIN saved_files.dog.post_ids :
                  \E r \in Items(final_files[1].dog_posts) :
                      r.value = saved_files.dog.post_ids[k]

\* what does hold: no post id twice when the saved ids were read back as text
NoDuplicatesWhenIdsReadAsText ==
    (\A r \in Items(ReadCsvPostIds(saved_files.cat.post_ids))
            \cup Items(ReadCsvPostIds(saved_files.dog.post_ids)) : r.type = "str") =>
        \A i, j \in DOMAIN AccumulatedIds :
            i # j => AccumulatedIds[i] # AccumulatedIds[j]

\* C28: in a location sweep the collector goes on accepting the posts of a
\* species that is below its target when the other species has reached its
\* own: a loop of the sweep is left on a target test only when both targets
\* are reached.
C28_SweepUntilBothTargets ==
    (collector_pc \in {"search", "searching", "browse", "browsing", "finished"}
        /\ pet_type = "both" /\ guard_breaks # {}) =>
        /\ cat_posts_count + Len(new_cat_posts) >= 5000
        /\ dog_posts_count + Len(new_dog_posts) >= 5000

\* C30: for every probability full_predict returns, the badge the web
\* application shows is High exactly when the prompt generate_gpt_suggestions
\* builds from the arguments the application passes calls the engagement
\* high, a probability of one half included.
C30_BadgeMatchesPrompt ==
    app_suggest_args # None =>
        LET call == app_suggest_args[1]
            prompt == BuildPrompt(call.text, call.pet_type, call.prob)
        IN  /\ call.prob = app_prediction[1].prob
            /\ app_ui[2] \in {"badge: High", "badge: Low"}
            /\ (app_ui[2] = "badge: High") <=> (prompt.engagement = "high")

\* the application has called generate_gpt_suggestions with a probability of
\* one half and shows the High badge
C30_Witness ==
    /\ app_suggest_args # None
    /\ app_suggest_args[1].prob = 50
    /\ app_ui[2] = "badge: High"

(***************************************************************************)
(* The two log files: src/bin/main.py and                                  *)
(* src/gpt_classifier_suggester/app/streamlit_app.py.  Each script builds  *)
(* a logging.FileHandler when it is executed, which opens its file at      *)
(* once.  A file is the sequence of the entries it holds; an entry is the  *)
(* execution that wrote it and its rank in that execution (execution 0 is  *)
(* what was in the file before).                                           *)
(***************************************************************************)
MaxExecutions == 2
MaxEntriesPerExecution == 2

LogEntry(run, n) == [run |-> run, n |-> n]

\* the entries a log file holds before the first execution
EarlierEntries == {<<>>, <<LogEntry(0, 1)>>}

\* a log file whose handler always empties it
OpenLogFileTruncating(content, mode) == <<>>

\* logging.FileHandler(path, mode=mode): open(path, mode)
OpenLogFile(content, mode) == IF mode = "w" THEN <<>> ELSE content

\* the mode each script passes
MainLogMode == "a"
StreamlitLogMode == "w"

InitLogs ==
    /\ main_log \in EarlierEntries
    /\ streamlit_app_log \in EarlierEntries
    /\ log_written = [main |-> main_log, streamlit_app |-> streamlit_app_log]
    /\ log_runs = [main |-> 0, streamlit_app |-> 0]
    /\ log_pc = [main |-> "stopped", streamlit_app |-> "stopped"]

IdleLogs ==
    /\ main_log = <<>>
    /\ streamlit_app_log = <<>>
    /\ log_written = [main |-> <<>>, streamlit_app |-> <<>>]
    /\ log_runs = [main |-> 0, streamlit_app |-> 0]
    /\ log_pc = [main |-> "off", streamlit_app |-> "off"]

OtherThanLogs == <<mergeVars, filterVars, labelVars, predictVars, moneyVars, cleanVars, gptVars, appVars, cliVars, trainVars, petVars, sweepVars, capVars, unifiedVars, prepareVars, styleVars, featuresVars, assignVars, collectorVars, driverVars, targetedVars>>

\* the entries the current execution of a tool has written
WrittenThisRun(tool) ==
    SelectSeq(log_written[tool], LAMBDA e : e.run = log_runs[tool])

\* python main.py: the module sets up logging
main_py_starts ==
    /\ log_pc.main = "stopped"
    /\ log_runs.main < MaxExecutions
    /\ main_log' = OpenLogFile(main_log, MainLogMode)
    /\ log_runs' = [log_runs EXCEPT !.main = @ + 1]
    /\ log_pc' = [log_pc EXCEPT !.main = "running"]
    /\ UNCHANGED <<streamlit_app_log, log_written, OtherThanLogs>>

\* a logging.info of main()
main_py_logs ==
    /\ log_pc.main = "running"
    /\ Len(WrittenThisRun("main")) < MaxEntriesPerExecution
    /\ LET entry == LogEntry(log_runs.main, Len(WrittenThisRun("main")) + 1)
       IN  /\ main_log' = Append(main_log, entry)
           /\ log_written' = [log_written EXCEPT !.main = Append(@, entry)]
    /\ UNCHANGED <<streamlit_app_log, log_runs, log_pc, OtherThanLogs>>

\* main() returns and the process ends
main_py_exits ==
    /\ log_pc.main = "running"
    /\ log_pc' = [log_pc EXCEPT !.main = "stopped"]
    /\ UNCHANGED <<main_log, streamlit_app_log, log_written, log_runs, OtherThanLogs>>

\* streamlit executes the script, when the application starts and again at
\* every interaction: the handlers argument is built each time
streamlit_app_executed ==
    /\ log_pc.streamlit_app \in {"stopped", "running"}
    /\ log_runs.streamlit_app < MaxExecutions
    /\ streamlit_app_log' = OpenLogFile(streamlit_app_log, StreamlitLogMode)
    /\ log_runs' = [log_runs EXCEPT !.streamlit_app = @ + 1]
    /\ log_pc' = [log_pc EXCEPT !.streamlit_app = "running"]
    /\ UNCHANGED <<main_log, log_written, OtherThanLogs>>

\* a logging.warning / logging.info of the button callback
streamlit_app_logs ==
    /\ log_pc.streamlit_app = "running"
    /\ Len(WrittenThisRun("streamlit_app")) < MaxEntriesPerExecution
    /\ LET entry == LogEntry(log_runs.streamlit_app,
                             Len(WrittenThisRun("streamlit_app")) + 1)
       IN  /\ streamlit_app_log' = Append(streamlit_app_log, entry)
           /\ log_written' = [log_written EXCEPT !.streamlit_app = Append(@, entry)]
    /\ UNCHANGED <<main_log, log_runs, log_pc, OtherThanLogs>>

\* the application is stopped
streamlit_app_stops ==
    /\ log_pc.streamlit_app = "running"
    /\ log_pc' = [log_pc EXCEPT !.streamlit_app = "stopped"]
    /\ UNCHANGED <<main_log, streamlit_app_log, log_written, log_runs, OtherThanLogs>>

NextLogs ==
    \/ main_py_starts
    \/ main_py_logs
    \/ main_py_exits
    \/ streamlit_app_executed
    \/ streamlit_app_logs
    \/ streamlit_app_stops

Handled(k) == uc_events[k].what \in {"processed", "failed"}

\* C26: between the processing of two consecutive submissions of a community
\* the unified comment collector sleeps one second, also when the comment
\* fetch of the first of the two failed.
C26_SleepBetweenSubmissions ==
    \A i, j \in DOMAIN uc_events :
        (/\ i < j
         /\ Handled(i) /\ Handled(j)
         /\ uc_events[i].sub = uc_events[j].sub
         /\ uc_events[j].idx = uc_events[i].idx + 1) =>
            \E k \in (i + 1)..(j - 1) : uc_events[k].what = "sleep"

\* what does hold: the collector sleeps after every submission whose
\* comments it fetched
SleepAfterFetchedSubmission ==
    \A i \in DOMAIN uc_events :
        uc_events[i].what = "processed" =>
            /\ i + 1 \in DOMAIN uc_events
            /\ uc_events[i + 1].what = "sleep"

(***************************************************************************)
(* Preprocessing driver: src/main.py.  The script goes through its four    *)
(* raw files and writes a processed file for each.  A file is a frame of   *)
(* one row, a function from its column names to its cells; a text cell is  *)
(* None when it is empty.  Between two runs of the script the raw text may *)
(* be edited and a processed file may be removed.                          *)
(***************************************************************************)
MaxDriverRuns == 2
MaxRawEdits == 1
MaxRemovals == 1

files == <<<<"c", "a", "t", "s", "_", "a", "l", "l", "_", "c", "o", "m", "m", "e", "n", "t", "s", ".", "c", "s", "v">>, <<"d", "o", "g", "s", "_", "a", "l", "l", "_", "c", "o", "m", "m", "e", "n", "t", "s", ".", "c", "s", "v">>,
           <<"c", "a", "t", "s", "_", "a", "l", "l", "_", "p", "o", "s", "t", ".", "c", "s", "v">>, <<"d", "o", "g", "s", "_", "a", "l", "l", "_", "p", "o", "s", "t", "s", ".", "c", "s", "v">>>>

\* str.replace(old, new)
RECURSIVE ReplaceAll(_, _, _)
ReplaceAll(text, old, new) ==
    IF text = <<>> THEN <<>>
    ELSE IF StartsWithAt(text, 1, old)
         THEN new \o ReplaceAll(SubSeq(text, Len(old) + 1, Len(text)), old, new)
    ELSE <<Head(text)>> \o ReplaceAll(Tail(text), old, new)

\* file.replace(".csv", "_processed.csv")
OutputFile(file) == ReplaceAll(file, <<".", "c", "s", "v">>, <<"_", "p", "r", "o", "c", "e", "s", "s", "e", "d", ".", "c", "s", "v">>)

OutputFiles == {OutputFile(files[k]) : k \in DOMAIN files}

\* the frames a raw file can hold
RawFrames(file) ==
    IF Contains(file, <<"c", "o", "m", "m", "e", "n", "t", "s">>)
    THEN {[body |-> Some(<<"A", "d", "o", "p", "t", " ", "n", "o", "w">>)]}
    ELSE IF Contains(file, <<"c", "a", "t", "s">>)
    THEN {[combined_text |-> Some(<<"A", "d", "o", "p", "t", " ", "n", "o", "w">>)],
          [title |-> Some(<<"A", "d", "o", "p", "t">>), selftext |-> Some(<<"S", "e", "e", " ", "h", "t", "t", "p", ":", "/", "/", "a">>)],
          [title |-> Some(<<"A", "d", "o", "p", "t">>), selftext |-> None]}
    ELSE {[title |-> Some(<<"A", "d", "o", "p", "t">>)], [score |-> Some(<<"5">>)]}

\* the body column the script makes sure of: None when the frame has no
\* usable text column, otherwise the cell
BodyColumn(df) ==
    IF "body" \in DOMAIN df THEN Some(df.body)
    ELSE IF "combined_text" \in DOMAIN df THEN Some(df.combined_text)
    ELSE IF "title" \in DOMAIN df /\ "selftext" \in DOMAIN df
         THEN Some(Some(Str(df.title) \o <<" ">> \o Str(df.selftext)))
    ELSE IF "title" \in DOMAIN df THEN Some(Some(Str(df.title)))
    ELSE None

\* processed_df: the columns read and what preprocess_comments adds
ProcessedFrame(df) ==
    [columns |-> df, processed |-> PreprocessComment(BodyColumn(df)[1])]

\* an iteration that writes its output whether or not it exists
FileIterationOverwriting(raw, existing) ==
    IF raw = None THEN existing
    ELSE IF BodyColumn(raw[1]) = None THEN existing
    ELSE Some(ProcessedFrame(raw[1]))

\* one iteration of the loop over files: the output file after it, from the
\* raw file and the output file before it (None: no such file)
FileIteration(raw, existing) ==
    IF raw = None THEN existing
    ELSE IF existing # None THEN existing
    ELSE IF BodyColumn(raw[1]) = None THEN existing
    ELSE Some(ProcessedFrame(raw[1]))

\* the text of a raw file is changed
EditedFrame(df) ==
    [c \in DOMAIN df |-> IF df[c] = None THEN Some(<<"?">>) ELSE Some(df[c][1] \o <<"?">>)]

InitDriver ==
    /\ raw_dir \in [Items(files) -> {None}]
          \cup {d \in [Items(files) -> UNION {{Some(f) : f \in RawFrames(file)} \cup {None} :
                                                  file \in Items(files)}] :
                    \A file \in Items(files) :
                        d[file] = None \/ d[file][1] \in RawFrames(file)}
    /\ processed_dir = [out \in OutputFiles |-> None]
    /\ processed_at_start = processed_dir
    /\ driver_importable \in BOOLEAN
    /\ driver_pc = "stopped"
    /\ driver_file = 0
    /\ driver_counts = [runs |-> 0, edits |-> 0, removals |-> 0]

IdleDriver ==
    /\ raw_dir = <<>>
    /\ processed_dir = <<>>
    /\ processed_at_start = <<>>
    /\ driver_importable = FALSE
    /\ driver_pc = "off"
    /\ driver_file = 0
    /\ driver_counts = [runs |-> 0, edits |-> 0, removals |-> 0]

OtherThanDriver == <<mergeVars, filterVars, labelVars, predictVars, moneyVars, cleanVars, gptVars, appVars, cliVars, trainVars, petVars, sweepVars, capVars, unifiedVars, prepareVars, styleVars, featuresVars, assignVars, collectorVars, logsVars, targetedVars>>

\* python main.py: the import of preprocess_comments succeeds
driver_starts ==
    /\ driver_pc \in {"stopped", "finished"}
    /\ driver_importable
    /\ driver_counts.runs < MaxDriverRuns
    /\ driver_counts' = [driver_counts EXCEPT !.runs = @ + 1]
    /\ processed_at_start' = processed_dir
    /\ driver_file' = 1
    /\ driver_pc' = "running"
    /\ UNCHANGED <<raw_dir, processed_dir, driver_importable, OtherThanDriver>>

\* python main.py: data_preprocessing is not on the path and the import raises
driver_import_fails ==
    /\ driver_pc \in {"stopped", "finished"}
    /\ ~driver_importable
    /\ driver_counts.runs < MaxDriverRuns
    /\ driver_counts' = [driver_counts EXCEPT !.runs = @ + 1]
    /\ driver_pc' = "crashed"
    /\ UNCHANGED <<raw_dir, processed_dir, processed_at_start, driver_importable,
                   driver_file, OtherThanDriver>>

\* the body of the loop for the next file
file_iteration ==
    /\ driver_pc = "running"
    /\ driver_file <= Len(files)
    /\ LET file == files[driver_file]
           out == OutputFile(file)
       IN  processed_dir' =
               [processed_dir EXCEPT
                   ![out] = FileIteration(raw_dir[file], processed_dir[out])]
    /\ driver_file' = driver_file + 1
    /\ UNCHANGED <<raw_dir, processed_at_start, driver_importable, driver_pc,
                   driver_counts, OtherThanDriver>>

\* the loop is over and the script ends
driver_ends ==
    /\ driver_pc = "running"
    /\ driver_file > Len(files)
    /\ driver_pc' = "finished"
    /\ UNCHANGED <<raw_dir, processed_dir, processed_at_start, driver_importable,
                   driver_file, driver_counts, OtherThanDriver>>

\* between two runs: the text of a raw file is changed
raw_text_changes ==
    /\ driver_pc \in {"stopped", "finished", "crashed"}
    /\ driver_counts.edits < MaxRawEdits
    /\ \E file \in Items(files) :
          /\ raw_dir[file] # None
          /\ raw_dir' = [raw_dir EXCEPT ![file] = Some(EditedFrame(raw_dir[file][1]))]
    /\ driver_counts' = [driver_counts EXCEPT !.edits = @ + 1]
    /\ driver_pc' = IF driver_pc = "finished" THEN "stopped" ELSE driver_pc
    /\ UNCHANGED <<processed_dir, processed_at_start, driver_importable, driver_file,
                   OtherThanDriver>>

\* between two runs: a processed file is removed
processed_file_removed ==
    /\ driver_pc \in {"stopped", "finished", "crashed"}
    /\ driver_counts.removals < MaxRemovals
    /\ \E out \in OutputFiles :
          /\ processed_dir[out] # None
          /\ processed_dir' = [processed_dir EXCEPT ![out] = None]
    /\ driver_counts' = [driver_counts EXCEPT !.removals = @ + 1]
    /\ driver_pc' = IF driver_pc = "finished" THEN "stopped" ELSE driver_pc
    /\ UNCHANGED <<raw_dir, processed_at_start, driver_importable, driver_file,
                   OtherThanDriver>>

NextDriver ==
    \/ driver_starts
    \/ driver_import_fails
    \/ file_iteration
    \/ driver_ends
    \/ raw_text_changes
    \/ processed_file_removed

\* the processed file of a raw file computed from the text the raw file has
Recomputed(file) ==
    processed_dir[OutputFile(file)] = Some(ProcessedFrame(raw_dir[file][1]))

Usable(file) == raw_dir[file] # None /\ BodyColumn(raw_dir[file][1]) # None

\* C29 as stated: engineered features are recomputed from scratch when the
\* source text changes: when a run of the driver has ended, the processed
\* file of a raw file is computed from the text the raw file holds, also when
\* the file was processed before and its text changed since.
C29_RecomputedWhenTextChanges ==
    driver_pc = "finished" =>
        \A file \in Items(files) : Usable(file) => Recomputed(file)

\* C29: a run of the driver computes the processed file of a raw file only
\* when there is none: a processed file that exists when the run starts is
\* left as it is whatever the raw text has become, and a missing one is
\* computed from scratch from the text the raw file holds.
C29_ComputedOnceUntilRemoved ==
    driver_pc = "finished" =>
        \A file \in Items(files) :
            LET out == OutputFile(file)
            IN  IF processed_at_start[out] # None
                THEN processed_dir[out] = processed_at_start[out]
                ELSE IF Usable(file) THEN Recomputed(file)
                ELSE processed_dir[out] = None

\* a second run has ended; the text of a raw file changed after its first
\* processing and its processed file still is the one of the first run
C29_Witness ==
    /\ driver_pc = "finished"
    /\ driver_counts.runs = 2
    /\ \E file \in Items(files) :
          /\ Usable(file)
          /\ processed_dir[OutputFile(file)] # None
          /\ processed_dir[OutputFile(file)] = processed_at_start[OutputFile(file)]
          /\ ~Recomputed(file)

(***************************************************************************)
(* Targeted dual-type collector: src/data-collection/data_v1.py.  The      *)
(* script runs its cat loop, then its dog loop, then merges the two lists. *)
(* A list of posts is the post ids it holds, in order, and the number of   *)
(* other posts in it (posts of the communities that the model does not     *)
(* follow one by one).  A listing can return any post of its community at  *)
(* any time, so a post is met again under another sort order.  The         *)
(* counters posts_collected and posts_checked only feed the progress       *)
(* messages.                                                               *)
(***************************************************************************)
OtherPostsInListing == 4998

target_posts_per_type == 5000
temp_save_interval == 500

cat_subreddits_v1 == <<<<"r", "e", "s", "c", "u", "e", "c", "a", "t", "s">>, <<"A", "d", "o", "p", "t", "M", "e">>>>
dog_subreddits_v1 == <<<<"r", "e", "s", "c", "u", "e", "d", "o", "g", "s">>, <<"A", "d", "o", "p", "t", "M", "e">>>>

adoption_keywords_v1 ==
    <<<<"a", "d", "o", "p", "t">>, <<"a", "d", "o", "p", "t", "i", "o", "n">>, <<"a", "d", "o", "p", "t", "e", "d">>, <<"a", "d", "o", "p", "t", "i", "n", "g">>, <<"r", "e", "h", "o", "m", "e">>, <<"r", "e", "-", "h", "o", "m", "e">>, <<"r", "e", "s", "c", "u", "e">>,
      <<"r", "e", "s", "c", "u", "e", "d">>, <<"f", "o", "s", "t", "e", "r">>, <<"f", "o", "r", "e", "v", "e", "r", " ", "h", "o", "m", "e">>, <<"s", "h", "e", "l", "t", "e", "r">>, <<"l", "o", "o", "k", "i", "n", "g", " ", "f", "o", "r", " ", "h", "o", "m", "e">>,
      <<"n", "e", "e", "d", "s", " ", "h", "o", "m", "e">>, <<"n", "e", "w", " ", "h", "o", "m", "e">>, <<"a", "v", "a", "i", "l", "a", "b", "l", "e">>, <<"s", "e", "e", "k", "i", "n", "g">>, <<"h", "e", "l", "p">>, <<"p", "l", "e", "a", "s", "e">>>>

cat_keywords_v1 ==
    <<<<"c", "a", "t">>, <<"c", "a", "t", "s">>, <<"k", "i", "t", "t", "e", "n">>, <<"k", "i", "t", "t", "e", "n", "s">>, <<"k", "i", "t", "t", "y">>, <<"f", "e", "l", "i", "n", "e">>, <<"t", "a", "b", "b", "y">>, <<"c", "a", "l", "i", "c", "o">>,
      <<"s", "i", "a", "m", "e", "s", "e">>, <<"p", "e", "r", "s", "i", "a", "n">>, <<"s", "h", "e", "-", "c", "a", "t">>, <<"t", "o", "m", "c", "a", "t">>, <<"m", "e", "o", "w">>>>

dog_keywords_v1 ==
    <<<<"d", "o", "g">>, <<"d", "o", "g", "s">>, <<"p", "u", "p", "p", "y">>, <<"p", "u", "p", "p", "i", "e", "s">>, <<"p", "u", "p">>, <<"p", "o", "o", "c", "h">>, <<"c", "a", "n", "i", "n", "e">>, <<"h", "o", "u", "n", "d">>,
      <<"r", "e", "t", "r", "i", "e", "v", "e", "r">>, <<"s", "h", "e", "p", "h", "e", "r", "d">>, <<"t", "e", "r", "r", "i", "e", "r">>, <<"l", "a", "b", "r", "a", "d", "o", "r">>, <<"b", "e", "a", "g", "l", "e">>, <<"c", "o", "l", "l", "i", "e">>,
      <<"p", "o", "o", "d", "l", "e">>, <<"b", "a", "r", "k">>, <<"w", "o", "o", "f">>>>

\* is_adoption_related(text), is_cat_related(text), is_dog_related(text) of data_v1.py
is_adoption_related_v1(text) == AnyIn(adoption_keywords_v1, Lower(text))
is_cat_related_v1(text) == AnyIn(cat_keywords_v1, Lower(text))
is_dog_related_v1(text) == AnyIn(dog_keywords_v1, Lower(text))

\* the posts of the three communities that the model follows
CommunityPosts ==
    {[id |-> "x1", subreddit |-> <<"A", "d", "o", "p", "t", "M", "e">>, title |-> <<"A", "d", "o", "p", "t">>, selftext |-> <<"c", "a", "t", " ", "o", "r", " ", "d", "o", "g">>],
     [id |-> "x2", subreddit |-> <<"A", "d", "o", "p", "t", "M", "e">>, title |-> <<"P", "u", "p", "p", "y", " ", "n", "e", "e", "d", "s", " ", "h", "o", "m", "e">>, selftext |-> <<>>],
     [id |-> "x3", subreddit |-> <<"A", "d", "o", "p", "t", "M", "e">>, title |-> <<"M", "y", " ", "c", "a", "t">>, selftext |-> <<>>],
     [id |-> "x4", subreddit |-> <<"r", "e", "s", "c", "u", "e", "c", "a", "t", "s">>, title |-> <<"P", "l", "e", "a", "s", "e", " ", "h", "e", "l", "p">>, selftext |-> <<>>],
     [id |-> "x5", subreddit |-> <<"r", "e", "s", "c", "u", "e", "d", "o", "g", "s">>, title |-> <<"R", "e", "x">>, selftext |-> <<"a", "d", "o", "p", "t", "e", "d">>]}

pet_types == {"cat", "dog"}

SubredditsOf(pet) == IF pet = "cat" THEN cat_subreddits_v1 ELSE dog_subreddits_v1

\* full_text = f"{post.title} {post.selftext}".strip()
FullTextOf(post) == Strip(post.title \o <<" ">> \o post.selftext)

\* is_related_to_cats / is_related_to_dogs
IsRelatedTo(pet, sub, full_text) ==
    IF pet = "cat" THEN sub = <<"r", "e", "s", "c", "u", "e", "c", "a", "t", "s">> \/ is_cat_related_v1(full_text)
    ELSE sub = <<"r", "e", "s", "c", "u", "e", "d", "o", "g", "s">> \/ is_dog_related_v1(full_text)

\* any(p.get("post_id") == post.id for p in cat_posts), and the same for dog_posts
AlreadyStored(posts, pet, post) ==
    \E k \in DOMAIN posts[pet].post_ids : posts[pet].post_ids[k] = post.id

\* len(cat_posts), len(dog_posts)
LenOf(list) == list.more + Len(list.post_ids)

InitTargeted ==
    /\ v1_posts = [pet \in pet_types |-> [more |-> 0, post_ids |-> <<>>]]
    /\ v1_posts_count = [pet \in pet_types |-> 0]
    /\ v1_temp_files = {}
    /\ v1_all_posts = None
    /\ v1_phase = "cat"
    /\ v1_sub = 1
    /\ v1_sort = 1
    /\ v1_pc = "sort_head"

IdleTargeted ==
    /\ v1_posts = <<>>
    /\ v1_posts_count = <<>>
    /\ v1_temp_files = {}
    /\ v1_all_posts = None
    /\ v1_phase = "off"
    /\ v1_sub = 0
    /\ v1_sort = 0
    /\ v1_pc = "off"

OtherThanTargeted == <<mergeVars, filterVars, labelVars, predictVars, moneyVars, cleanVars, gptVars, appVars, cliVars, trainVars, petVars, sweepVars, capVars, unifiedVars, prepareVars, styleVars, featuresVars, assignVars, collectorVars, logsVars, driverVars>>

\* the loop over the communities of a species goes to its next community, or
\* the script goes on to the next loop
NextCommunity(pet) ==
    /\ v1_sort' = 1
    /\ IF v1_sub < Len(SubredditsOf(pet))
       THEN /\ v1_sub' = v1_sub + 1
            /\ UNCHANGED <<v1_phase, v1_pc>>
       ELSE /\ v1_sub' = 1
            /\ IF pet = "cat"
               THEN v1_phase' = "dog" /\ UNCHANGED v1_pc
               ELSE v1_pc' = "merge" /\ UNCHANGED v1_phase

\* head of the loop over sort methods: the target is reached, break
SortLoopBreak(pet) ==
    /\ v1_pc = "sort_head" /\ v1_phase = pet
    /\ v1_sort <= Len(sort_methods)
    /\ v1_posts_count[pet] >= target_posts_per_type
    /\ NextCommunity(pet)
    /\ UNCHANGED <<v1_posts, v1_posts_count, v1_temp_files, v1_all_posts, OtherThanTargeted>>

\* head of the loop over sort methods: the listing is requested
ListingBegins(pet) ==
    /\ v1_pc = "sort_head" /\ v1_phase = pet
    /\ v1_sort <= Len(sort_methods)
    /\ v1_posts_count[pet] < target_posts_per_type
    /\ v1_pc' = "listing"
    /\ UNCHANGED <<v1_posts, v1_posts_count, v1_temp_files, v1_all_posts, v1_phase, v1_sub,
                   v1_sort, OtherThanTargeted>>

\* the loop over sort methods is over
SortsDone(pet) ==
    /\ v1_pc = "sort_head" /\ v1_phase = pet
    /\ v1_sort > Len(sort_methods)
    /\ NextCommunity(pet)
    /\ UNCHANGED <<v1_posts, v1_posts_count, v1_temp_files, v1_all_posts, OtherThanTargeted>>

\* the temporary files written on the way from count `before` to count `after`
TempFilesWritten(pet, before, after) ==
    {[pet_type |-> pet, count |-> n] :
        n \in {c \in (before + 1)..after : c % temp_save_interval = 0}}

\* the body of the loop over the posts of a listing
ListingPost(pet, post) ==
    /\ v1_pc = "listing" /\ v1_phase = pet
    /\ post.subreddit = SubredditsOf(pet)[v1_sub]
    /\ IF AlreadyStored(v1_posts, pet, post)
       THEN UNCHANGED <<v1_posts, v1_posts_count, v1_temp_files, v1_sort, v1_pc>>
       ELSE LET full_text == FullTextOf(post)
                accepted == is_adoption_related_v1(full_text)
                               /\ IsRelatedTo(pet, post.subreddit, full_text)
                count == IF accepted THEN v1_posts_count[pet] + 1 ELSE v1_posts_count[pet]
            IN  /\ v1_posts' = IF accepted
                               THEN [v1_posts EXCEPT ![pet].post_ids = Append(@, post.id)]
                               ELSE v1_posts
                /\ v1_posts_count' = [v1_posts_count EXCEPT ![pet] = count]
                /\ v1_temp_files' = IF accepted
                                    THEN v1_temp_files
                                            \cup TempFilesWritten(pet, count - 1, count)
                                    ELSE v1_temp_files
                /\ IF count >= target_posts_per_type
                   THEN v1_sort' = v1_sort + 1 /\ v1_pc' = "sort_head"
                   ELSE UNCHANGED <<v1_sort, v1_pc>>
    /\ UNCHANGED <<v1_all_posts, v1_phase, v1_sub, OtherThanTargeted>>

\* a run of iterations of the same loop body over accepted posts that the
\* model does not follow one by one, none of them stored before
ListingOtherPosts(pet) ==
    /\ v1_pc = "listing" /\ v1_phase = pet
    /\ v1_posts[pet].more = 0
    /\ v1_posts_count[pet] + OtherPostsInListing < target_posts_per_type
    /\ v1_posts' = [v1_posts EXCEPT ![pet].more = @ + OtherPostsInListing]
    /\ v1_posts_count' = [v1_posts_count EXCEPT ![pet] = @ + OtherPostsInListing]
    /\ v1_temp_files' = v1_temp_files
                          \cup TempFilesWritten(pet, v1_posts_count[pet],
                                                v1_posts_count[pet] + OtherPostsInListing)
    /\ UNCHANGED <<v1_all_posts, v1_phase, v1_sub, v1_sort, v1_pc, OtherThanTargeted>>

\* the listing is exhausted, or fetching it raised: on to the next sort method
ListingEnds(pet) ==
    /\ v1_pc = "listing" /\ v1_phase = pet
    /\ v1_sort' = v1_sort + 1
    /\ v1_pc' = "sort_head"
    /\ UNCHANGED <<v1_posts, v1_posts_count, v1_temp_files, v1_all_posts, v1_phase, v1_sub,
                   OtherThanTargeted>>

cat_sort_loop_break == SortLoopBreak("cat")
cat_listing_begins == ListingBegins("cat")
cat_sorts_done == SortsDone("cat")
cat_listing_post == \E post \in CommunityPosts : ListingPost("cat", post)
cat_listing_other_posts == ListingOtherPosts("cat")
cat_listing_ends == ListingEnds("cat")

dog_sort_loop_break == SortLoopBreak("dog")
dog_listing_begins == ListingBegins("dog")
dog_sorts_done == SortsDone("dog")
dog_listing_post == \E post \in CommunityPosts : ListingPost("dog", post)
dog_listing_other_posts == ListingOtherPosts("dog")
dog_listing_ends == ListingEnds("dog")

\* Step 7: all_posts = cat_posts + dog_posts, written to all_pet_posts.csv
save_final_merged_results ==
    /\ v1_pc = "merge"
    /\ v1_all_posts' = Some([more |-> v1_posts.cat.more + v1_posts.dog.more,
                             post_ids |-> v1_posts.cat.post_ids \o v1_posts.dog.post_ids])
    /\ v1_pc' = "done"
    /\ UNCHANGED <<v1_posts, v1_posts_count, v1_temp_files, v1_phase, v1_sub, v1_sort,
                   OtherThanTargeted>>

NextTargeted ==
    \/ cat_sort_loop_break
    \/ cat_listing_begins
    \/ cat_sorts_done
    \/ cat_listing_post
    \/ cat_listing_other_posts
    \/ cat_listing_ends
    \/ dog_sort_loop_break
    \/ dog_listing_begins
    \/ dog_sorts_done
    \/ dog_listing_post
    \/ dog_listing_other_posts
    \/ dog_listing_ends
    \/ save_final_merged_results

\* no value occurs twice in the sequence
OccursOnce(ids) == \A i, j \in DOMAIN ids : ids[i] = ids[j] => i = j

\* C24: the targeted dual-type collector never stores the same post twice:
\* at every point of the run the post ids stored in cat_posts and dog_posts
\* together are all different, and so are the post ids of the final combined
\* all_pet_posts output.
C24_NoPostStoredTwice ==
    /\ OccursOnce(v1_posts.cat.post_ids \o v1_posts.dog.post_ids)
    /\ v1_all_posts # None => OccursOnce(v1_all_posts[1].post_ids)

\* what the duplicate test gives: within the list of one species every post
\* id occurs once, and each counter is the length of its list
OncePerSpeciesList ==
    \A pet \in pet_types :
        /\ OccursOnce(v1_posts[pet].post_ids)
        /\ v1_posts_count[pet] = LenOf(v1_posts[pet])

(***************************************************************************)
(* Specifications: one per component, the other components idle.           *)
(***************************************************************************)
AllIdleBut(c) ==
    /\ (c = "merge" \/ IdleMerge)
    /\ (c = "filter" \/ IdleFilter)
    /\ (c = "label" \/ IdleLabel)
    /\ (c = "predict" \/ IdlePredict)
    /\ (c = "money" \/ IdleMoney)
    /\ (c = "clean" \/ IdleClean)
    /\ (c = "gpt" \/ IdleGpt)
    /\ (c = "app" \/ IdleApp)
    /\ (c = "cli" \/ IdleCli)
    /\ (c = "train" \/ IdleTrain)
    /\ (c = "pet" \/ IdlePet)
    /\ (c = "sweep" \/ IdleSweep)
    /\ (c = "cap" \/ IdleCap)
    /\ (c = "unified" \/ IdleUnified)
    /\ (c = "prepare" \/ IdlePrepare)
    /\ (c = "style" \/ IdleStyle)
    /\ (c = "features" \/ IdleFeatures)
    /\ (c = "assign" \/ IdleAssign)
    /\ (c = "collector" \/ IdleCollector)
    /\ (c = "logs" \/ IdleLogs)
    /\ (c = "driver" \/ IdleDriver)
    /\ (c = "targeted" \/ IdleTargeted)

StartMerge == InitMerge /\ AllIdleBut("merge")
SpecMerge == StartMerge /\ [][NextMerge]_vars

StartLabel == InitLabel /\ AllIdleBut("label")
SpecLabel == StartLabel /\ [][NextLabel]_vars

StartPredict == InitPredict /\ AllIdleBut("predict")
SpecPredict == StartPredict /\ [][NextPredict]_vars

StartMoney == InitMoney /\ AllIdleBut("money")
SpecMoney == StartMoney /\ [][NextMoney]_vars

StartClean == InitClean /\ AllIdleBut("clean")
SpecClean == StartClean /\ [][NextClean]_vars

StartGpt == InitGpt /\ AllIdleBut("gpt")
SpecGpt == StartGpt /\ [][NextGpt]_vars

StartApp == InitApp /\ AllIdleBut("app")
SpecApp == StartApp /\ [][NextApp]_vars

StartCli == InitCli /\ AllIdleBut("cli")
SpecCli == StartCli /\ [][NextCli]_vars

StartTrain == InitTrain /\ AllIdleBut("train")
SpecTrain == StartTrain /\ [][NextTrain]_vars

StartPet == InitPet /\ AllIdleBut("pet")
SpecPet == StartPet /\ [][NextPet]_vars

StartSweep == InitSweep /\ AllIdleBut("sweep")
SpecSweep == StartSweep /\ [][NextSweep]_vars

StartCap == InitCap /\ AllIdleBut("cap")
SpecCap == StartCap /\ [][NextCap]_vars

StartUnified == InitUnified /\ AllIdleBut("unified")
SpecUnified == StartUnified /\ [][NextUnified]_vars

StartPrepare == InitPrepare /\ AllIdleBut("prepare")
SpecPrepare == StartPrepare /\ [][NextPrepare]_vars

StartStyle == InitStyle /\ AllIdleBut("style")
SpecStyle == StartStyle /\ [][NextStyle]_vars

StartFeatures == InitFeatures /\ AllIdleBut("features")
SpecFeatures == StartFeatures /\ [][NextFeatures]_vars

StartAssign == InitAssign /\ AllIdleBut("assign")
SpecAssign == StartAssign /\ [][NextAssign]_vars

StartCollector == InitCollector /\ AllIdleBut("collector")
SpecCollector == StartCollector /\ [][NextCollector]_vars

StartLogs == InitLogs /\ AllIdleBut("logs")
SpecLogs == StartLogs /\ [][NextLogs]_vars

StartDriver == InitDriver /\ AllIdleBut("driver")
SpecDriver == StartDriver /\ [][NextDriver]_vars

StartTargeted == InitTargeted /\ AllIdleBut("targeted")
SpecTargeted == StartTargeted /\ [][NextTargeted]_vars

StartFilter == InitFilter /\ AllIdleBut("filter")
SpecFilter == StartFilter /\ [][NextFilter]_vars

=============================================================================
